---- MODULE Spec2Model ----
(***************************************************************************)
(* console-operator: the hardware reconcile loop (watchHardware /          *)
(* doHardwareUpdate), the sizing of the console-node worker set            *)
(* (updateNodeCounts / updateReplicaCount / updateNodesPerPod) and the     *)
(* debug endpoints that touch the same globals.                            *)
(*                                                                         *)
(* One loop iteration of watchHardware is one action: the reconciler is a  *)
(* single goroutine and runs doHardwareUpdate to completion before it      *)
(* sleeps.  HTTP handlers are separate actions that run between            *)
(* iterations.  Lists built by ranging over the nodeCache map have no      *)
(* defined order in Go, so payloads are modelled as sets of node records.  *)
(***************************************************************************)
EXTENDS Integers, Sequences, FiniteSets, TLC

VARIABLES
    nodeCache,            \* map[string]nodeConsoleInfo: node name -> record
    numNodePods,          \* number of console-node pods recorded
    numRvrNodesPerPod,    \* recorded river budget per pod
    numMtnNodesPerPod,    \* recorded mountain budget per pod
    maxMtnNodesPerPod,    \* configured maximum, mountain
    maxRvrNodesPerPod,    \* configured maximum, river
    hardwareUpdateTime,   \* time of the last update attempt
    inShutdown,           \* pause flag of the periodic checks
    forceUpdateCnt,       \* watchHardware local: countdown to a full update
    updateMtnKey,         \* watchHardware local: redeploy all mountain keys
    replicas,             \* cluster: Spec.Replicas of the cray-console-node set
    targetNodeFile,       \* file system: text of TargetNodes.txt
    now,                  \* wall clock, read by time.Now()
    mainPc,               \* main: "serving", "signalled" or "exited"
    heartbeatStaleMinutes, \* age in minutes at which a worker's heartbeat is stale
    last                  \* record of what the most recent operation did

vars == <<nodeCache, numNodePods, numRvrNodesPerPod, numMtnNodesPerPod,
          maxMtnNodesPerPod, maxRvrNodesPerPod, hardwareUpdateTime, inShutdown,
          forceUpdateCnt, updateMtnKey, replicas, targetNodeFile, now, mainPc,
          heartbeatStaleMinutes, last>>

(***************************************************************************)
(* Bounds of the model.                                                    *)
(***************************************************************************)
\* number of distinct timestamps the clock cycles through; timestamps are
\* only ever compared for equality
ClockSize == 2

\* replica count of the stateful set when the operator starts
InitReplicas == 1

(***************************************************************************)
(* Program constants.                                                      *)
(***************************************************************************)
Unknown == -1            \* hardwareUpdateTime = "Unknown"
NotSet == -1             \* numNodePods, numRvrNodesPerPod, numMtnNodesPerPod
DefaultMaxMtn == 750
DefaultMaxRvr == 2000
ForceUpdatePeriod == 10  \* "force a complete update every 10 times"
PinMin == 2
PinMaxMtn == 750
PinMaxRvr == 2000
DefaultHeartbeatStaleMinutes == 3
MinHeartbeatStaleMinutes == 1
MaxHeartbeatStaleMinutes == 60

(***************************************************************************)
(* Nodes known to the hardware state manager.                              *)
(***************************************************************************)
NodeClass ==
    [ x1000c0s0b0n0 |-> "Mountain",
      x1100c0s0b0n0 |-> "Hill",
      x3000c0s1b0n0 |-> "River" ]

NodeNames == DOMAIN NodeClass

\* nodeConsoleInfo: BmcName, BmcFqdn, NID and Role are carried along
\* unchanged and never read by the reconciler
NodeInfo(name) == [NodeName |-> name, Class |-> NodeClass[name]]

isMountain(node) == node.Class = "Mountain" \/ node.Class = "Hill"

isRiver(node) == node.Class = "River"

\* what getCurrentNodesFromHSM can return on success: any set of nodes
Inventories == {{NodeInfo(n) : n \in S} : S \in SUBSET NodeNames}

Names(nodes) == {n.NodeName : n \in nodes}

Values(cache) == {cache[k] : k \in DOMAIN cache}

EmptyCache == [k \in {} |-> NodeInfo(k)]

(***************************************************************************)
(* Sizing: updateNodeCounts, updateReplicaCount, updateNodesPerPod.        *)
(***************************************************************************)
Max(a, b) == IF a > b THEN a ELSE b

\* math.Ceil(float64(n) / float64(d)) for n >= 0, d >= 1
CeilDiv(n, d) == (n + d - 1) \div d

\* pods needed for one hardware class: one more than strictly required
NumPodsReq(num, maxPerPod) == CeilDiv(num, Max(maxPerPod, 1)) + 1

\* fault: the two requirements are added instead of compared
NewNumPodsSum(numMtnNodes, numRvrNodes, maxMtn, maxRvr) ==
    NumPodsReq(numMtnNodes, maxMtn) + NumPodsReq(numRvrNodes, maxRvr)

\* the number of pods asked for: the larger of the two requirements
NewNumPods(numMtnNodes, numRvrNodes, maxMtn, maxRvr) ==
    LET numMtnReq == NumPodsReq(numMtnNodes, maxMtn)
        numRvrReq == NumPodsReq(numRvrNodes, maxRvr)
    IN  IF numRvrReq > numMtnReq THEN numRvrReq ELSE numMtnReq

\* fault: the budget without its padding
NewPerPodNoPad(num, newNumPods) == CeilDiv(num, newNumPods)

\* fault: the budget rounded down and without its padding
NewPerPodFloor(num, newNumPods) == num \div newNumPods

\* consoles of one class each pod is told to watch
NewPerPod(num, newNumPods) == CeilDiv(num, newNumPods) + 1

\* outcomes of the cluster API during updateReplicaCount
K8sOutcomes == {"ok", "getFail", "updateFail"}

\* outcomes of the file system during updateNodesPerPod
FileOutcomes == {"ok", "mkdirFail", "openFail"}

\* fault: numNodePods is recorded whether or not the cluster call succeeded
UpdateReplicaCountRecordAlways(newReplicaCnt, s, k8s) ==
    IF k8s = "getFail"
    THEN [replicas |-> s.replicas, numNodePods |-> newReplicaCnt,
          k8sUpdate |-> FALSE, k8sOK |-> FALSE]
    ELSE IF newReplicaCnt # s.replicas
         THEN IF k8s = "updateFail"
              THEN [replicas |-> s.replicas, numNodePods |-> newReplicaCnt,
                    k8sUpdate |-> TRUE, k8sOK |-> FALSE]
              ELSE [replicas |-> newReplicaCnt, numNodePods |-> newReplicaCnt,
                    k8sUpdate |-> TRUE, k8sOK |-> TRUE]
         ELSE [replicas |-> s.replicas, numNodePods |-> newReplicaCnt,
               k8sUpdate |-> FALSE, k8sOK |-> TRUE]

\* fault: numNodePods is recorded although the Update call failed
UpdateReplicaCountRecordFailedWrite(newReplicaCnt, s, k8s) ==
    IF k8s = "getFail"
    THEN [replicas |-> s.replicas, numNodePods |-> s.numNodePods,
          k8sUpdate |-> FALSE, k8sOK |-> FALSE]
    ELSE IF newReplicaCnt # s.replicas
         THEN [replicas |-> IF k8s = "updateFail" THEN s.replicas
                            ELSE newReplicaCnt,
               numNodePods |-> newReplicaCnt,
               k8sUpdate |-> TRUE, k8sOK |-> k8s # "updateFail"]
         ELSE [replicas |-> s.replicas, numNodePods |-> newReplicaCnt,
               k8sUpdate |-> FALSE, k8sOK |-> TRUE]

\* fault: the stateful set is updated without comparing the replica counts
UpdateReplicaCountAlwaysWrite(newReplicaCnt, s, k8s) ==
    IF k8s = "getFail"
    THEN [replicas |-> s.replicas, numNodePods |-> s.numNodePods,
          k8sUpdate |-> FALSE, k8sOK |-> FALSE]
    ELSE IF k8s = "updateFail"
         THEN [replicas |-> s.replicas, numNodePods |-> s.numNodePods,
               k8sUpdate |-> TRUE, k8sOK |-> FALSE]
         ELSE [replicas |-> newReplicaCnt, numNodePods |-> newReplicaCnt,
               k8sUpdate |-> TRUE, k8sOK |-> TRUE]

\* updateReplicaCount(newReplicaCnt): s carries replicas and numNodePods.
\* k8sUpdate records the Update call, k8sOK that no call failed.
UpdateReplicaCount(newReplicaCnt, s, k8s) ==
    IF k8s = "getFail"
    THEN [replicas |-> s.replicas, numNodePods |-> s.numNodePods,
          k8sUpdate |-> FALSE, k8sOK |-> FALSE]
    ELSE IF newReplicaCnt # s.replicas
         THEN IF k8s = "updateFail"
              THEN [replicas |-> s.replicas, numNodePods |-> s.numNodePods,
                    k8sUpdate |-> TRUE, k8sOK |-> FALSE]
              ELSE [replicas |-> newReplicaCnt, numNodePods |-> newReplicaCnt,
                    k8sUpdate |-> TRUE, k8sOK |-> TRUE]
         ELSE [replicas |-> s.replicas, numNodePods |-> newReplicaCnt,
               k8sUpdate |-> FALSE, k8sOK |-> TRUE]

\* text is a sequence of one-character strings
DigitChars == <<"0", "1", "2", "3", "4", "5", "6", "7", "8", "9">>

\* fmt's %d: the decimal digits of n, with a sign when n is negative
RECURSIVE Itoa(_)
Itoa(n) ==
    IF n < 0 THEN <<"-">> \o Itoa(-n)
    ELSE IF n < 10 THEN <<DigitChars[n + 1]>>
    ELSE Itoa(n \div 10) \o <<DigitChars[(n % 10) + 1]>>

RiverLabel == <<"R", "i", "v", "e", "r", ":">>

MountainLabel == <<"M", "o", "u", "n", "t", "a", "i", "n", ":">>

\* fmt.Sprintf("River:%d\n", n) and fmt.Sprintf("Mountain:%d\n", n)
FormatLine(label, n) == label \o Itoa(n) \o <<"\n">>

\* the two lines written to the target node file
TargetFileLines(newNumMtn, newNumRvr) ==
    FormatLine(RiverLabel, newNumRvr) \o FormatLine(MountainLabel, newNumMtn)

\* fault: the file is written and the budgets are never recorded
UpdateNodesPerPodNoRecord(newNumMtn, newNumRvr, s, fs) ==
    [targetNodeFile |-> IF fs = "ok"
                        THEN TargetFileLines(newNumMtn, newNumRvr)
                        ELSE s.targetNodeFile,
     numMtnNodesPerPod |-> s.numMtnNodesPerPod,
     numRvrNodesPerPod |-> s.numRvrNodesPerPod, fileWritten |-> fs = "ok"]

\* fault: the file is opened without O_TRUNC and the lines are appended
UpdateNodesPerPodAppend(newNumMtn, newNumRvr, s, fs) ==
    IF fs = "mkdirFail"
    THEN [targetNodeFile |-> s.targetNodeFile,
          numMtnNodesPerPod |-> s.numMtnNodesPerPod,
          numRvrNodesPerPod |-> s.numRvrNodesPerPod, fileWritten |-> FALSE]
    ELSE [targetNodeFile |-> IF fs = "openFail" THEN s.targetNodeFile
                             ELSE s.targetNodeFile
                                    \o TargetFileLines(newNumMtn, newNumRvr),
          numMtnNodesPerPod |-> newNumMtn,
          numRvrNodesPerPod |-> newNumRvr, fileWritten |-> fs = "ok"]

\* updateNodesPerPod(newNumMtn, newNumRvr): s carries targetNodeFile and the
\* two recorded budgets.  A failed MkdirAll returns early; a failed OpenFile
\* is only logged, the writes to the nil file fail and the globals are set.
UpdateNodesPerPod(newNumMtn, newNumRvr, s, fs) ==
    IF fs = "mkdirFail"
    THEN [targetNodeFile |-> s.targetNodeFile,
          numMtnNodesPerPod |-> s.numMtnNodesPerPod,
          numRvrNodesPerPod |-> s.numRvrNodesPerPod, fileWritten |-> FALSE]
    ELSE [targetNodeFile |-> IF fs = "openFail" THEN s.targetNodeFile
                             ELSE TargetFileLines(newNumMtn, newNumRvr),
          numMtnNodesPerPod |-> newNumMtn,
          numRvrNodesPerPod |-> newNumRvr, fileWritten |-> fs = "ok"]

\* what a call of updateNodeCounts leaves when it bails out or is not made
NoSizing(s) ==
    [replicas |-> s.replicas, numNodePods |-> s.numNodePods,
     targetNodeFile |-> s.targetNodeFile,
     numMtnNodesPerPod |-> s.numMtnNodesPerPod,
     numRvrNodesPerPod |-> s.numRvrNodesPerPod,
     sized |-> FALSE, resizeReq |-> 0, k8sUpdate |-> FALSE, k8sOK |-> FALSE,
     newMtn |-> 0, newRvr |-> 0, fileCall |-> FALSE, fileWritten |-> FALSE]

\* the body of updateNodeCounts once it is past the "no nodes" bail
DoSizing(numMtnNodes, numRvrNodes, s, k8s, fs) ==
    LET newNumPods == NewNumPods(numMtnNodes, numRvrNodes, s.maxMtn, s.maxRvr)
        rc     == UpdateReplicaCount(newNumPods, s, k8s)
        newMtn == NewPerPod(numMtnNodes, newNumPods)
        newRvr == NewPerPod(numRvrNodes, newNumPods)
        call   == newRvr # s.numRvrNodesPerPod \/ newMtn # s.numMtnNodesPerPod
        fw     == IF call THEN UpdateNodesPerPod(newMtn, newRvr, s, fs)
                  ELSE [targetNodeFile |-> s.targetNodeFile,
                        numMtnNodesPerPod |-> s.numMtnNodesPerPod,
                        numRvrNodesPerPod |-> s.numRvrNodesPerPod,
                        fileWritten |-> FALSE]
    IN  [replicas |-> rc.replicas, numNodePods |-> rc.numNodePods,
         targetNodeFile |-> fw.targetNodeFile,
         numMtnNodesPerPod |-> fw.numMtnNodesPerPod,
         numRvrNodesPerPod |-> fw.numRvrNodesPerPod,
         sized |-> TRUE, resizeReq |-> newNumPods,
         k8sUpdate |-> rc.k8sUpdate, k8sOK |-> rc.k8sOK,
         newMtn |-> newMtn, newRvr |-> newRvr,
         fileCall |-> call, fileWritten |-> call /\ fw.fileWritten]

\* fault: no bail when no node is reported
UpdateNodeCountsNoBail(numMtnNodes, numRvrNodes, s, k8s, fs) ==
    DoSizing(numMtnNodes, numRvrNodes, s, k8s, fs)

\* updateNodeCounts(numMtnNodes, numRvrNodes)
UpdateNodeCounts(numMtnNodes, numRvrNodes, s, k8s, fs) ==
    IF numMtnNodes + numRvrNodes = 0
    THEN NoSizing(s)
    ELSE DoSizing(numMtnNodes, numRvrNodes, s, k8s, fs)

\* the globals and collaborators updateNodeCounts reads
SizingState ==
    [replicas |-> replicas, numNodePods |-> numNodePods,
     targetNodeFile |-> targetNodeFile,
     numMtnNodesPerPod |-> numMtnNodesPerPod,
     numRvrNodesPerPod |-> numRvrNodesPerPod,
     maxMtn |-> maxMtnNodesPerPod, maxRvr |-> maxRvrNodesPerPod]

(***************************************************************************)
(* doHardwareUpdate: the difference between the inventory and the cache.   *)
(***************************************************************************)
\* what getCurrentNodesFromHSM hands to doHardwareUpdate: the node list, or
\* nil when either query of the hardware state manager failed
FetchResults ==
    {[ok |-> TRUE, nodes |-> inv] : inv \in Inventories}
        \cup {[ok |-> FALSE, nodes |-> {}]}

\* first loop: the nodes of currNodes that are not in the cache
NewNodes(cache, currNodes) == {n \in currNodes : n.NodeName \notin DOMAIN cache}

\* first loop: nodeCache[n.NodeName] = n for every new node
AddToCache(cache, newNodes) ==
    [k \in DOMAIN cache \cup Names(newNodes) |->
        IF k \in DOMAIN cache THEN cache[k]
        ELSE CHOOSE n \in newNodes : n.NodeName = k]

\* fault: every cached node is handed to dataRemoveNodes
RemovedNodesAll(cache, currNodes) == Values(cache)

\* second loop: the cached nodes that are not in currNodes
RemovedNodes(cache, currNodes) ==
    {cache[k] : k \in {k \in DOMAIN cache : k \notin Names(currNodes)}}

\* fault: the removed nodes stay cached
RemoveFromCacheKeep(cache, removedNodes) == cache

\* delete(nodeCache, n.NodeName) for every removed node
RemoveFromCache(cache, removedNodes) ==
    [k \in DOMAIN cache \ Names(removedNodes) |-> cache[k]]

\* fault: every iteration is treated as a full update
AddPayloadAll(cache, newNodes, updateAll) == Values(cache)

\* the list handed to dataAddNodes: the new nodes, or with updateAll every
\* entry the second loop ranges over (the cache before the removals)
AddPayload(cache, newNodes, updateAll) ==
    IF updateAll THEN Values(cache) ELSE newNodes

\* fault: the redeploy flag is ignored
KeyListNewOnly(cache, newNodes, redeployMtnKeys) ==
    {n \in newNodes : isMountain(n)}

\* the list handed to ensureMountainConsoleKeysDeployed
KeyList(cache, newNodes, redeployMtnKeys) ==
    IF redeployMtnKeys THEN {v \in Values(cache) : isMountain(v)}
    ELSE {n \in newNodes : isMountain(n)}

\* second loop: counts over the cached nodes still in currNodes
CountRvr(cache, currNodes) ==
    Cardinality({k \in DOMAIN cache :
                    k \in Names(currNodes) /\ isRiver(cache[k])})

CountMtn(cache, currNodes) ==
    Cardinality({k \in DOMAIN cache :
                    /\ k \in Names(currNodes)
                    /\ ~isRiver(cache[k])
                    /\ isMountain(cache[k])})

\* dataAddNodes: true iff console-data answered with a status below 400
DataAddNodes(newNodes, dsOK) == dsOK

\* ensureMountainConsoleKeysDeployed: one success bit for the whole list
EnsureMountainConsoleKeysDeployed(newMtnNodes, keyOK) == keyOK

\* fault: the countdown restarts one short
NextForceUpdateCntShort(cnt, updateSuccess) ==
    LET c == IF cnt - 1 < 0 THEN ForceUpdatePeriod - 1 ELSE cnt - 1
    IN  IF ~updateSuccess THEN 0 ELSE c

\* fault: a failed register call does not force the next full update
NextForceUpdateCntNoReset(cnt, updateSuccess) ==
    IF cnt - 1 < 0 THEN ForceUpdatePeriod ELSE cnt - 1

\* fault: the countdown restarts one long
NextForceUpdateCntLong(cnt, updateSuccess) ==
    LET c == IF cnt - 1 < 0 THEN ForceUpdatePeriod + 1 ELSE cnt - 1
    IN  IF ~updateSuccess THEN 0 ELSE c

\* watchHardware: the countdown after one iteration
NextForceUpdateCnt(cnt, updateSuccess) ==
    LET c == IF cnt - 1 < 0 THEN ForceUpdatePeriod ELSE cnt - 1
    IN  IF ~updateSuccess THEN 0 ELSE c

\* fault: the redeploy flag is never raised
NextUpdateMtnKeyNever(keySuccess) == FALSE

\* watchHardware: the redeploy flag after one iteration
NextUpdateMtnKey(keySuccess) == ~keySuccess

\* the record kept of an operation; a tick fills every field
NoOp ==
    [op |-> "none", hsmOK |-> FALSE, currNodes |-> {}, cacheBefore |-> {},
     updateAll |-> FALSE, redeployMtnKeys |-> FALSE,
     added |-> {}, removed |-> {}, keyList |-> {},
     updateSuccess |-> TRUE, keySuccess |-> TRUE,
     removeOK |-> TRUE,
     trace |-> << >>, afterClear |-> FALSE, cleared |-> FALSE,
     numMtnNodes |-> 0, numRvrNodes |-> 0, maxMtn |-> 0, maxRvr |-> 0,
     sized |-> FALSE, resizeReq |-> 0, k8sUpdate |-> FALSE, k8sOK |-> FALSE,
     newMtn |-> 0, newRvr |-> 0, fileCall |-> FALSE, fileWritten |-> FALSE]

\* fault: a failed register call ends the loops
RunningWhileRegistered ==
    mainPc # "exited" /\ (last.op = "tick" => last.updateSuccess)

\* the process lives until main returns
Running == mainPc # "exited"

\* a step of doHardwareUpdate, with the keys of the cache as they are
\* while the step runs; no entry when the step is not taken
TickStep(taken, ev, cache) ==
    IF taken THEN <<[ev |-> ev, cache |-> DOMAIN cache]>> ELSE << >>

\* fault: the resize and the file write come before the cache is updated
TickTraceResizeFirst(cache0, cache1, cache2, newNodes, addList, removedNodes, newMtnNodes, z) ==
    TickStep(z.sized, "resize", cache0)
        \o TickStep(z.fileCall, "file", cache0)
        \o TickStep(newNodes # {}, "cacheInsert", cache1)
        \o TickStep(removedNodes # {}, "cacheDelete", cache2)
        \o TickStep(addList # {}, "register", cache2)
        \o TickStep(removedNodes # {}, "deregister", cache2)
        \o TickStep(newMtnNodes # {}, "keys", cache2)

\* the steps of doHardwareUpdate in the order of its statements: the first
\* loop fills the cache, the removed nodes are deleted from it,
\* dataAddNodes, dataRemoveNodes, updateNodeCounts (updateReplicaCount,
\* then updateNodesPerPod), ensureMountainConsoleKeysDeployed
TickTrace(cache0, cache1, cache2, newNodes, addList, removedNodes, newMtnNodes, z) ==
    TickStep(newNodes # {}, "cacheInsert", cache1)
        \o TickStep(removedNodes # {}, "cacheDelete", cache2)
        \o TickStep(addList # {}, "register", cache2)
        \o TickStep(removedNodes # {}, "deregister", cache2)
        \o TickStep(z.sized, "resize", cache2)
        \o TickStep(z.fileCall, "file", cache2)
        \o TickStep(newMtnNodes # {}, "keys", cache2)

(***************************************************************************)
(* watchHardware: one iteration of the loop.                               *)
(***************************************************************************)
\* !inShutdown: doHardwareUpdate, the countdown, the key flag, the sleep.
\* dsOK, k8s, fs and keyOK are the outcomes of the calls the iteration makes.
WatchHardwareIteration(fetch, dsOK, rmOK, k8s, fs, keyOK) ==
    LET updateAll       == forceUpdateCnt = 0
        redeployMtnKeys == updateMtnKey
        currNodes       == fetch.nodes
        newNodes        == NewNodes(nodeCache, currNodes)
        cache1          == AddToCache(nodeCache, newNodes)
        addList         == AddPayload(cache1, newNodes, updateAll)
        newMtnNodes     == KeyList(cache1, newNodes, redeployMtnKeys)
        removedNodes    == RemovedNodes(cache1, currNodes)
        numRvrNodes     == CountRvr(cache1, currNodes)
        numMtnNodes     == CountMtn(cache1, currNodes)
        updateSuccess   == IF addList # {} THEN DataAddNodes(addList, dsOK)
                           ELSE TRUE
        z               == UpdateNodeCounts(numMtnNodes, numRvrNodes,
                                            SizingState, k8s, fs)
        keySuccess      == IF newMtnNodes # {}
                           THEN EnsureMountainConsoleKeysDeployed(newMtnNodes, keyOK)
                           ELSE TRUE
    IN  /\ Running
        /\ ~inShutdown
        \* an outcome is drawn only for a call that is made
        /\ addList = {} => dsOK
        /\ removedNodes = {} => rmOK
        /\ newMtnNodes = {} => keyOK
        /\ ~z.sized => k8s = "ok"
        /\ ~z.fileCall => fs = "ok"
        /\ hardwareUpdateTime' = now
        /\ nodeCache' = RemoveFromCache(cache1, removedNodes)
        /\ replicas' = z.replicas
        /\ numNodePods' = z.numNodePods
        /\ targetNodeFile' = z.targetNodeFile
        /\ numMtnNodesPerPod' = z.numMtnNodesPerPod
        /\ numRvrNodesPerPod' = z.numRvrNodesPerPod
        /\ forceUpdateCnt' = NextForceUpdateCnt(forceUpdateCnt, updateSuccess)
        /\ updateMtnKey' = NextUpdateMtnKey(keySuccess)
        /\ now' = (now + 1) % ClockSize
        /\ last' = [op |-> "tick", hsmOK |-> fetch.ok, currNodes |-> currNodes,
                    cacheBefore |-> Values(nodeCache),
                    updateAll |-> updateAll, redeployMtnKeys |-> redeployMtnKeys,
                    added |-> addList, removed |-> removedNodes,
                    keyList |-> newMtnNodes,
                    updateSuccess |-> updateSuccess, keySuccess |-> keySuccess,
                    removeOK |-> rmOK,
                    \* the iteration is the first to start after a DELETE
                    \* /clearData has returned
                    afterClear |-> \/ last.op = "clear"
                                   \/ last.op = "tick" /\ last.cleared,
                    cleared |-> FALSE,
                    trace |-> TickTrace(nodeCache, cache1,
                                        RemoveFromCache(cache1, removedNodes),
                                        newNodes, addList, removedNodes,
                                        newMtnNodes, z),
                    numMtnNodes |-> numMtnNodes, numRvrNodes |-> numRvrNodes,
                    maxMtn |-> maxMtnNodesPerPod, maxRvr |-> maxRvrNodesPerPod,
                    sized |-> z.sized, resizeReq |-> z.resizeReq,
                    k8sUpdate |-> z.k8sUpdate, k8sOK |-> z.k8sOK,
                    newMtn |-> z.newMtn, newRvr |-> z.newRvr,
                    fileCall |-> z.fileCall, fileWritten |-> z.fileWritten]
        /\ UNCHANGED <<heartbeatStaleMinutes, maxMtnNodesPerPod, maxRvrNodesPerPod, inShutdown,
                       mainPc>>

\* an iteration whose dataRemoveNodes call, when made, succeeds
HardwareUpdate(fetch, dsOK, k8s, fs, keyOK) ==
    WatchHardwareIteration(fetch, dsOK, TRUE, k8s, fs, keyOK)

\* an iteration while the cluster and the file system answer: the inventory,
\* the data service and the key staging may fail
WatchHardwareTick ==
    \E fetch \in FetchResults, dsOK \in BOOLEAN, keyOK \in BOOLEAN :
        HardwareUpdate(fetch, dsOK, "ok", "ok", keyOK)

\* an iteration while the data service and the key staging answer: the
\* inventory and the cluster may fail
WatchHardwareClusterTick ==
    \E fetch \in FetchResults, k8s \in K8sOutcomes :
        HardwareUpdate(fetch, TRUE, k8s, "ok", TRUE)

\* inShutdown: the iteration only sleeps
WatchHardwareSkip ==
    /\ Running
    /\ inShutdown
    /\ UNCHANGED vars

(***************************************************************************)
(* Debug endpoints.                                                        *)
(***************************************************************************)
\* fault: the request is stored as asked
pinNumNodesAsAsked(numAsk, numMin, numMax) == numAsk

\* pinNumNodes(numAsk, numMin, numMax)
pinNumNodes(numAsk, numMin, numMax) ==
    IF numAsk < numMin THEN numMin
    ELSE IF numAsk > numMax THEN numMax
    ELSE numAsk

\* bodies of PATCH /maxNodesPerPod
PatchBodies ==
    { [maxMtn |-> 10000, maxRvr |-> 1],
      [maxMtn |-> 1, maxRvr |-> 10000],
      [maxMtn |-> 5, maxRvr |-> 2000] }

doSetMaxNodesPerPod ==
    \E inData \in PatchBodies :
        /\ Running
        /\ maxMtnNodesPerPod' = pinNumNodes(inData.maxMtn, PinMin, PinMaxMtn)
        /\ maxRvrNodesPerPod' = pinNumNodes(inData.maxRvr, PinMin, PinMaxRvr)
        /\ UNCHANGED <<heartbeatStaleMinutes, nodeCache, numNodePods, numRvrNodesPerPod,
                       numMtnNodesPerPod, hardwareUpdateTime, inShutdown,
                       forceUpdateCnt, updateMtnKey, replicas, targetNodeFile,
                       now, mainPc, last>>

\* DELETE /clearData: empty the cache, hand every entry to dataRemoveNodes
\* in one call, made whether or not there is an entry
doClearData ==
    /\ Running
    /\ nodeCache' = EmptyCache
    /\ last' = [NoOp EXCEPT !.op = "clear", !.cacheBefore = Values(nodeCache),
                            !.removed = Values(nodeCache),
                            !.trace = TickStep(TRUE, "deregister", EmptyCache)]
    /\ UNCHANGED <<heartbeatStaleMinutes, numNodePods, numRvrNodesPerPod, numMtnNodesPerPod,
                   maxMtnNodesPerPod, maxRvrNodesPerPod, hardwareUpdateTime,
                   inShutdown, forceUpdateCnt, updateMtnKey, replicas,
                   targetNodeFile, now, mainPc>>

doSuspend ==
    /\ Running
    /\ inShutdown' = TRUE
    /\ UNCHANGED <<heartbeatStaleMinutes, nodeCache, numNodePods, numRvrNodesPerPod, numMtnNodesPerPod,
                   maxMtnNodesPerPod, maxRvrNodesPerPod, hardwareUpdateTime,
                   forceUpdateCnt, updateMtnKey, replicas, targetNodeFile,
                   now, mainPc, last>>

doResume ==
    /\ Running
    /\ inShutdown' = FALSE
    /\ UNCHANGED <<heartbeatStaleMinutes, nodeCache, numNodePods, numRvrNodesPerPod, numMtnNodesPerPod,
                   maxMtnNodesPerPod, maxRvrNodesPerPod, hardwareUpdateTime,
                   forceUpdateCnt, updateMtnKey, replicas, targetNodeFile,
                   now, mainPc, last>>

(***************************************************************************)
(* The operator.                                                           *)
(***************************************************************************)
\* the value of an environment variable: unset, text that is not an
\* integer, or an integer
EnvValues ==
    { [set |-> FALSE, isInt |-> FALSE, int |-> 0],
      [set |-> TRUE,  isInt |-> FALSE, int |-> 0],
      [set |-> TRUE,  isInt |-> TRUE,  int |-> 0],
      [set |-> TRUE,  isInt |-> TRUE,  int |-> 5],
      [set |-> TRUE,  isInt |-> TRUE,  int |-> 100] }

\* the environment the operator runs in when nothing is configured
EnvUnset == [set |-> FALSE, isInt |-> FALSE, int |-> 0]

\* readSingleEnvVarInt: the variable keeps its value when the setting is
\* absent or not an integer, and takes the setting brought into
\* [minVal, maxVal] otherwise
readSingleEnvVarInt(v, outVar, minVal, maxVal) ==
    IF ~v.set \/ ~v.isInt THEN outVar
    ELSE IF v.int < minVal THEN minVal
    ELSE IF v.int > maxVal THEN maxVal
    ELSE v.int

\* the globals after main has read HEARTBEAT_STALE_DURATION_MINUTES
InitEnv(staleEnv) ==
    /\ heartbeatStaleMinutes =
          readSingleEnvVarInt(staleEnv, DefaultHeartbeatStaleMinutes,
                              MinHeartbeatStaleMinutes,
                              MaxHeartbeatStaleMinutes)
    /\ nodeCache = EmptyCache
    /\ numNodePods = NotSet
    /\ numRvrNodesPerPod = NotSet
    /\ numMtnNodesPerPod = NotSet
    /\ maxMtnNodesPerPod = DefaultMaxMtn
    /\ maxRvrNodesPerPod = DefaultMaxRvr
    /\ hardwareUpdateTime = Unknown
    /\ inShutdown = FALSE
    /\ forceUpdateCnt = 0
    /\ updateMtnKey = TRUE
    /\ replicas = InitReplicas
    /\ targetNodeFile = << >>
    /\ now = 0
    /\ mainPc = "serving"
    /\ last = NoOp

Init == InitEnv(EnvUnset)

Next ==
    \/ WatchHardwareTick
    \/ WatchHardwareSkip
    \/ doClearData
    \/ doSuspend
    \/ doResume

\* the reconcile loop and the debug endpoints that act on its state, with
\* the inventory, the data service and the key staging free to fail
Spec == Init /\ [][Next]_vars

NextCluster ==
    \/ WatchHardwareClusterTick

\* the reconcile loop with the inventory and the cluster free to fail
SpecCluster == Init /\ [][NextCluster]_vars

(***************************************************************************)
(* The sizing step on its own: doHardwareUpdate hands updateNodeCounts the *)
(* two counts of its second loop, whatever the cache holds.                *)
(***************************************************************************)
\* counts (mountain, river) of the caches the step is applied to
NodeCounts ==
    { <<0, 0>>, <<1, 0>>, <<4, 0>>, <<3, 2>>, <<0, 1600>> }

SizeNodes ==
    \E c \in NodeCounts, k8s \in K8sOutcomes, fs \in FileOutcomes :
        LET z == UpdateNodeCounts(c[1], c[2], SizingState, k8s, fs)
        IN  /\ Running
            /\ ~z.sized => k8s = "ok"
            /\ ~z.fileCall => fs = "ok"
            /\ replicas' = z.replicas
            /\ numNodePods' = z.numNodePods
            /\ targetNodeFile' = z.targetNodeFile
            /\ numMtnNodesPerPod' = z.numMtnNodesPerPod
            /\ numRvrNodesPerPod' = z.numRvrNodesPerPod
            /\ last' = [NoOp EXCEPT
                          !.op = "size",
                          !.numMtnNodes = c[1], !.numRvrNodes = c[2],
                          !.maxMtn = maxMtnNodesPerPod,
                          !.maxRvr = maxRvrNodesPerPod,
                          !.sized = z.sized, !.resizeReq = z.resizeReq,
                          !.k8sUpdate = z.k8sUpdate, !.k8sOK = z.k8sOK,
                          !.newMtn = z.newMtn, !.newRvr = z.newRvr,
                          !.fileCall = z.fileCall,
                          !.fileWritten = z.fileWritten]
            /\ UNCHANGED <<heartbeatStaleMinutes, nodeCache, maxMtnNodesPerPod, maxRvrNodesPerPod,
                           hardwareUpdateTime, inShutdown, forceUpdateCnt,
                           updateMtnKey, now, mainPc>>

NextSizing ==
    \/ SizeNodes
    \/ doSetMaxNodesPerPod

\* the sizing step under every outcome of the cluster and the file system,
\* with the maxima changed through PATCH /maxNodesPerPod
SpecSizing == Init /\ [][NextSizing]_vars

(***************************************************************************)
(* Shutdown: main waits for a signal, raises inShutdown, stops the HTTP    *)
(* server and returns.  Between the signal and the return the server still *)
(* finishes the requests it has accepted, and watchHardware still runs.    *)
(***************************************************************************)
\* an iteration with every collaborator answering
WatchHardwareQuietTick ==
    \E fetch \in {f \in FetchResults : f.ok} :
        HardwareUpdate(fetch, TRUE, "ok", "ok", TRUE)

\* main: sig := <-sigs; inShutdown = true
Signal ==
    /\ mainPc = "serving"
    /\ mainPc' = "signalled"
    /\ inShutdown' = TRUE
    /\ UNCHANGED <<heartbeatStaleMinutes, nodeCache, numNodePods, numRvrNodesPerPod, numMtnNodesPerPod,
                   maxMtnNodesPerPod, maxRvrNodesPerPod, hardwareUpdateTime,
                   forceUpdateCnt, updateMtnKey, replicas, targetNodeFile,
                   now, last>>

\* main: httpSrv.Shutdown has returned and main returns
Exit ==
    /\ mainPc = "signalled"
    /\ mainPc' = "exited"
    /\ UNCHANGED <<heartbeatStaleMinutes, nodeCache, numNodePods, numRvrNodesPerPod, numMtnNodesPerPod,
                   maxMtnNodesPerPod, maxRvrNodesPerPod, hardwareUpdateTime,
                   inShutdown, forceUpdateCnt, updateMtnKey, replicas,
                   targetNodeFile, now, last>>

NextShutdown ==
    \/ WatchHardwareQuietTick
    \/ WatchHardwareSkip
    \/ doSuspend
    \/ doResume
    \/ Signal
    \/ Exit

\* the reconcile loop with suspend, resume and the termination signal
SpecShutdown == Init /\ [][NextShutdown]_vars

(***************************************************************************)
(* Properties.                                                             *)
(***************************************************************************)
\* the ceiling of n / d, written without CeilDiv
Ceiling(n, d) == IF n % d = 0 THEN n \div d ELSE (n \div d) + 1

\* mountain-like and river entries of a cache
CacheMtn(cache) == Cardinality({k \in DOMAIN cache : isMountain(cache[k])})

CacheRvr(cache) == Cardinality({k \in DOMAIN cache : isRiver(cache[k])})

\* the worker count the inventory calls for
WorkersFor(M, R, maxMtn, maxRvr) ==
    Max(Ceiling(M, Max(maxMtn, 1)) + 1, Ceiling(R, Max(maxRvr, 1)) + 1)

\* C1 as stated: after an iteration whose cache holds M mountain-like and R
\* river nodes, M+R > 0 implies numNodePods >= max(ceil(M/MAX_MTN),
\* ceil(R/MAX_RVR)) + 1, and M+R = 0 implies numNodePods is unchanged.
C1_WorkerCountAtLeast ==
    [][WatchHardwareClusterTick =>
        LET M == CacheMtn(nodeCache')
            R == CacheRvr(nodeCache')
        IN  IF M + R > 0
            THEN numNodePods' >= Max(Ceiling(M, maxMtnNodesPerPod),
                                     Ceiling(R, maxRvrNodesPerPod)) + 1
            ELSE numNodePods' = numNodePods]_vars

\* C1 amended: after an iteration whose cache holds M mountain-like and R
\* river nodes, if M+R > 0 and no cluster call of the resize failed then
\* numNodePods = max(ceil(M/MAX_MTN), ceil(R/MAX_RVR)) + 1; in every other
\* case (M+R = 0, or a cluster call failed) numNodePods is unchanged.
C1_WorkerCountWhenResized ==
    [][WatchHardwareClusterTick =>
        LET M == CacheMtn(nodeCache')
            R == CacheRvr(nodeCache')
        IN  IF M + R > 0 /\ last'.k8sOK
            THEN numNodePods' = WorkersFor(M, R, maxMtnNodesPerPod,
                                           maxRvrNodesPerPod)
            ELSE numNodePods' = numNodePods]_vars

\* an iteration over a non-empty cache whose update of the stateful set
\* failed: numNodePods is still unset
C1_Witness ==
    /\ last.op = "tick"
    /\ nodeCache # EmptyCache
    /\ last.k8sUpdate
    /\ ~last.k8sOK
    /\ numNodePods = NotSet

\* C2 as stated: an iteration whose inventory fetch failed keeps the cache,
\* sends no register and no deregister call and leaves the replica count.
C2_FetchErrorIsNoInformation ==
    [][(WatchHardwareTick /\ ~last'.hsmOK) =>
        /\ nodeCache' = nodeCache
        /\ last'.added = {}
        /\ last'.removed = {}
        /\ replicas' = replicas]_vars

\* C3: an iteration whose inventory is empty does not call
\* updateReplicaCount, leaves the replica count and the recorded pod count,
\* and sets hardwareUpdateTime to the time of the iteration.
C3_EmptyInventoryNoResize ==
    [][(WatchHardwareTick /\ last'.currNodes = {}) =>
        /\ ~last'.sized
        /\ ~last'.k8sUpdate
        /\ replicas' = replicas
        /\ numNodePods' = numNodePods
        /\ hardwareUpdateTime' = now]_vars

\* an iteration whose fetch succeeded with an empty inventory and emptied
\* the cache
C3_Witness ==
    /\ last.op = "tick"
    /\ last.hsmOK
    /\ last.currNodes = {}
    /\ last.removed # {}
    /\ hardwareUpdateTime # Unknown

\* C4 as stated: an iteration whose inventory fetch failed leaves the
\* countdown to the next full update as it was.
C4_FetchErrorKeepsCountdown ==
    [][(WatchHardwareTick /\ ~last'.hsmOK) =>
        forceUpdateCnt' = forceUpdateCnt]_vars

\* C5: a sizing of M mountain-like and R river nodes, M+R > 0, asks the
\* cluster for max(ceil(M/max(MAX_MTN,1)) + 1, ceil(R/max(MAX_RVR,1)) + 1)
\* replicas, which the stateful set has once the call succeeded; one
\* mountain node with MAX_MTN = 5 asks for 2, 1600 river nodes with
\* MAX_RVR = 2000 ask for 2.
C5_RequestedReplicas ==
    (last.op = "size" /\ last.numMtnNodes + last.numRvrNodes > 0) =>
        /\ last.sized
        /\ last.resizeReq = WorkersFor(last.numMtnNodes, last.numRvrNodes,
                                       last.maxMtn, last.maxRvr)
        /\ last.k8sOK => replicas = last.resizeReq
        /\ last.k8sUpdate /\ last.k8sOK => numNodePods = last.resizeReq
        /\ (last.numMtnNodes = 1 /\ last.numRvrNodes = 0 /\ last.maxMtn = 5)
               => last.resizeReq = 2
        /\ (last.numMtnNodes = 0 /\ last.numRvrNodes = 1600
               /\ last.maxRvr = 2000) => last.resizeReq = 2

\* one mountain node sized with MAX_MTN = 5: the stateful set was updated
\* to 2 replicas
C5_Witness ==
    /\ last.op = "size"
    /\ last.numMtnNodes = 1
    /\ last.numRvrNodes = 0
    /\ last.maxMtn = 5
    /\ last.k8sUpdate
    /\ last.k8sOK
    /\ replicas = 2

\* C6: a sizing of M mountain-like and R river nodes, M+R > 0, computes the
\* budgets ceil(M/workers) + 1 and ceil(R/workers) + 1 from the replica
\* count of the same sizing, and a written target file carries them; 1600
\* river nodes with MAX_RVR = 2000 publish River:801 and Mountain:1.
C6_Budgets ==
    (last.op = "size" /\ last.numMtnNodes + last.numRvrNodes > 0) =>
        /\ last.newMtn = Ceiling(last.numMtnNodes, last.resizeReq) + 1
        /\ last.newRvr = Ceiling(last.numRvrNodes, last.resizeReq) + 1
        /\ last.fileWritten =>
              /\ targetNodeFile = TargetFileLines(last.newMtn, last.newRvr)
              /\ numMtnNodesPerPod = last.newMtn
              /\ numRvrNodesPerPod = last.newRvr
        /\ (last.numMtnNodes = 0 /\ last.numRvrNodes = 1600
               /\ last.maxRvr = 2000) =>
              /\ last.newRvr = 801
              /\ last.newMtn = 1

\* 1600 river nodes sized with MAX_RVR = 2000 and the file written
C6_Witness ==
    /\ last.op = "size"
    /\ last.numMtnNodes = 0
    /\ last.numRvrNodes = 1600
    /\ last.maxRvr = 2000
    /\ last.fileWritten
    /\ targetNodeFile = <<"R", "i", "v", "e", "r", ":", "8", "0", "1", "\n",
                          "M", "o", "u", "n", "t", "a", "i", "n", ":", "1",
                          "\n">>

\* C7 as stated: in every reachable state both budgets are at least 1.
C7_BudgetsAtLeastOne ==
    /\ numMtnNodesPerPod >= 1
    /\ numRvrNodesPerPod >= 1

\* C7 amended: in every reachable state the two budgets are both still
\* unset (-1, as at startup) or both at least 1.
C7_BudgetsUnsetOrAtLeastOne ==
    \/ numMtnNodesPerPod = NotSet /\ numRvrNodesPerPod = NotSet
    \/ numMtnNodesPerPod >= 1 /\ numRvrNodesPerPod >= 1

\* a sizing that resized the stateful set and could not create the
\* directory of the target file: the budgets are still unset
C7_Witness ==
    /\ last.op = "size"
    /\ last.k8sOK
    /\ last.fileCall
    /\ ~last.fileWritten
    /\ numMtnNodesPerPod = NotSet
    /\ numRvrNodesPerPod = NotSet

\* C8 as stated: in every state after a sizing the recorded mountain budget
\* is at most the current MAX_MTN and the recorded river budget at most the
\* current MAX_RVR, also after PATCH /maxNodesPerPod lowered the maxima.
C8_BudgetsWithinMaxima ==
    (last.op = "size" /\ last.sized) =>
        /\ numMtnNodesPerPod <= maxMtnNodesPerPod
        /\ numRvrNodesPerPod <= maxRvrNodesPerPod

\* the second of two iterations over the same non-empty inventory, with the
\* countdown above 0
SecondTickUnchanged ==
    /\ WatchHardwareClusterTick
    /\ last.op = "tick"
    /\ last.hsmOK
    /\ last'.hsmOK
    /\ last.currNodes # {}
    /\ last'.currNodes = last.currNodes
    /\ forceUpdateCnt > 0

\* C9 as stated: the second of two consecutive iterations over an unchanged
\* non-empty inventory, with the countdown above 0, sends no register call,
\* no deregister call and does not update the stateful set.
C9_SecondTickSilent ==
    [][SecondTickUnchanged =>
        /\ last'.added = {}
        /\ last'.removed = {}
        /\ ~last'.k8sUpdate]_vars

\* C9 amended: if moreover the resize of the first iteration succeeded and
\* the maxima are those of the first iteration, the second iteration sends
\* no register call, no deregister call and does not update the stateful
\* set; after a failed resize it sends no register and no deregister call.
C9_SecondTickSilentAfterResize ==
    [][SecondTickUnchanged =>
        /\ last'.added = {}
        /\ last'.removed = {}
        /\ (/\ last.k8sOK
            /\ last.maxMtn = maxMtnNodesPerPod
            /\ last.maxRvr = maxRvrNodesPerPod) => ~last'.k8sUpdate]_vars

\* an iteration that is not a full update, found the inventory equal to the
\* cache, asked the cluster and changed nothing
C9_Witness ==
    /\ last.op = "tick"
    /\ ~last.updateAll
    /\ last.hsmOK
    /\ last.currNodes # {}
    /\ last.currNodes = last.cacheBefore
    /\ last.sized
    /\ last.k8sOK
    /\ ~last.k8sUpdate
    /\ last.added = {}
    /\ last.removed = {}

\* C10: for a cache C and a non-empty set S of nodes outside it, an
\* iteration over the inventory C + S followed by an iteration over the
\* inventory C, neither a full update, leaves the cache at C, registers
\* exactly S in the first and deregisters exactly S in the second.
C10_AddRemoveRoundTrip ==
    [][(/\ WatchHardwareTick
        /\ last.op = "tick"
        /\ ~last.updateAll
        /\ ~last'.updateAll
        /\ last.cacheBefore \subseteq last.currNodes
        /\ last.currNodes # last.cacheBefore
        /\ last'.currNodes = last.cacheBefore) =>
        LET S == last.currNodes \ last.cacheBefore
        IN  /\ Values(nodeCache') = last.cacheBefore
            /\ last.added = S
            /\ last'.removed = S
            /\ last'.added = {}]_vars

\* an iteration that is not a full update removed two nodes from a cache
\* that keeps a third
C10_Witness ==
    /\ last.op = "tick"
    /\ ~last.updateAll
    /\ last.hsmOK
    /\ Cardinality(last.removed) = 2
    /\ last.added = {}
    /\ Values(nodeCache) = last.cacheBefore \ last.removed
    /\ nodeCache # EmptyCache

\* C11: an iteration whose register call did not fail is a full update
\* exactly when the countdown is 0; it then hands dataAddNodes every entry
\* of the cache (the entries it found and the ones it added) and leaves the
\* countdown at 10; any other such iteration lowers the countdown by one, so
\* 0 is reached after exactly 10 of them.
C11_CountdownCycle ==
    [][(WatchHardwareTick /\ last'.updateSuccess) =>
        /\ forceUpdateCnt \in 0..10
        /\ last'.updateAll <=> forceUpdateCnt = 0
        /\ IF forceUpdateCnt = 0
           THEN /\ forceUpdateCnt' = 10
                /\ last'.added = last'.cacheBefore \cup last'.currNodes
                /\ Values(nodeCache') \subseteq last'.added
           ELSE forceUpdateCnt' = forceUpdateCnt - 1]_vars

\* the countdown came down to 0 through an iteration that was not a full
\* update, over a non-empty cache
C11_Witness ==
    /\ last.op = "tick"
    /\ ~last.updateAll
    /\ last.updateSuccess
    /\ forceUpdateCnt = 0
    /\ nodeCache # EmptyCache

\* C12 as stated: the register payload of a full update is exactly the
\* cache the iteration leaves, and holds no node the iteration removes.
C12_ForcedPayloadIsPostCache ==
    [][(WatchHardwareTick /\ last'.updateAll) =>
        /\ last'.added = Values(nodeCache')
        /\ last'.added \cap last'.removed = {}]_vars

\* C13: an iteration whose register call failed leaves the countdown at 0,
\* nothing but an iteration changes the countdown, and an iteration that
\* starts at 0 is a full update; the failing iteration still runs the
\* sizing on the counts of its cache: with M+R > 0 it asks for the replica
\* count of those counts, resizes the stateful set and computes the budgets.
C13_RegisterFailureForcesResync ==
    [][IF WatchHardwareTick
       THEN /\ forceUpdateCnt = 0 => last'.updateAll
            /\ ~last'.updateSuccess =>
                 LET M == CacheMtn(nodeCache')
                     R == CacheRvr(nodeCache')
                 IN  /\ forceUpdateCnt' = 0
                     /\ last'.numMtnNodes = M /\ last'.numRvrNodes = R
                     /\ last'.sized <=> M + R > 0
                     /\ last'.sized =>
                          /\ last'.resizeReq =
                                WorkersFor(M, R, maxMtnNodesPerPod,
                                           maxRvrNodesPerPod)
                          /\ replicas' = last'.resizeReq
                          /\ numMtnNodesPerPod' =
                                Ceiling(M, last'.resizeReq) + 1
                          /\ numRvrNodesPerPod' =
                                Ceiling(R, last'.resizeReq) + 1
       ELSE forceUpdateCnt' = forceUpdateCnt]_vars

\* a first iteration whose register call failed and that resized the
\* stateful set
C13_Witness ==
    /\ last.op = "tick"
    /\ ~last.updateSuccess
    /\ last.sized
    /\ last.k8sUpdate
    /\ replicas = 2
    /\ forceUpdateCnt = 0

\* the mountain-like nodes (class Mountain or Hill) of a set of nodes
MountainLike(nodes) == {n \in nodes : n.Class \in {"Mountain", "Hill"}}

\* C14: the redeploy flag is true after an iteration exactly when the key
\* staging of that iteration was run and failed, and only an iteration
\* changes it; an iteration that starts with the flag true stages the keys
\* of every mountain-like entry of the cache (the entries it found and the
\* ones it added), any other only of the mountain-like nodes it added.
C14_KeyRedeployLatch ==
    [][IF WatchHardwareTick
       THEN /\ updateMtnKey' <=> ~last'.keySuccess
            /\ ~last'.keySuccess => last'.keyList # {}
            /\ last'.redeployMtnKeys <=> updateMtnKey
            /\ last'.keyList =
                 IF updateMtnKey
                 THEN MountainLike(last'.cacheBefore \cup last'.currNodes)
                 ELSE MountainLike(last'.currNodes \ last'.cacheBefore)
            /\ updateMtnKey => MountainLike(Values(nodeCache'))
                                  \subseteq last'.keyList
       ELSE updateMtnKey' = updateMtnKey]_vars

\* an iteration that added nothing, started with the flag true, staged the
\* keys of both mountain-like entries of the cache and lowered the flag
C14_Witness ==
    /\ last.op = "tick"
    /\ last.redeployMtnKeys
    /\ ~last.updateAll
    /\ last.currNodes = last.cacheBefore
    /\ Cardinality(last.keyList) = 2
    /\ last.keySuccess
    /\ ~updateMtnKey

\* C15 as stated: an iteration whose key staging failed leaves the
\* countdown at 0, so that the next iteration is a full update.
C15_KeyFailureForcesResync ==
    [][(WatchHardwareTick /\ ~last'.keySuccess) =>
        forceUpdateCnt' = 0]_vars

\* C15 amended: an iteration whose key staging failed raises the redeploy
\* flag and leaves the countdown where the register call alone puts it: 0
\* if that call failed, else 10 after a full update and one less after any
\* other iteration.
C15_KeyFailureOnlyRaisesFlag ==
    [][(WatchHardwareTick /\ ~last'.keySuccess) =>
        /\ updateMtnKey'
        /\ forceUpdateCnt' = IF ~last'.updateSuccess THEN 0
                             ELSE IF forceUpdateCnt = 0 THEN 10
                             ELSE forceUpdateCnt - 1]_vars

\* an iteration that was not a full update, whose register call did not
\* fail and whose key staging failed: the flag is up, the countdown not 0
C15_Witness ==
    /\ last.op = "tick"
    /\ ~last.updateAll
    /\ last.updateSuccess
    /\ ~last.keySuccess
    /\ updateMtnKey
    /\ forceUpdateCnt > 0

\* C16 as stated: while inShutdown is true no iteration starts (no fetch,
\* no register or deregister call, no resize; hardwareUpdateTime, the
\* countdown and the redeploy flag keep their values); once a termination
\* signal has raised inShutdown no iteration ever starts again; and only
\* POST /resume lowers inShutdown.
C16_LatchStopsReconcile ==
    [][/\ inShutdown =>
            /\ ~WatchHardwareQuietTick
            /\ UNCHANGED <<nodeCache, replicas, hardwareUpdateTime,
                           forceUpdateCnt, updateMtnKey, last>>
       /\ mainPc # "serving" => ~WatchHardwareQuietTick
       /\ (inShutdown /\ ~inShutdown') => doResume]_vars

\* C17: an iteration changes numNodePods only to the replica count it asked
\* for and only when no cluster call of the resize failed; when one failed,
\* numNodePods and the stateful set keep their values; and every iteration
\* with M+R > 0, the one after a failed resize included, calls
\* updateReplicaCount again and writes only a count that differs.
C17_RecordOnlyOnSuccess ==
    [][WatchHardwareClusterTick =>
        LET M == CacheMtn(nodeCache')
            R == CacheRvr(nodeCache')
        IN  /\ last'.sized <=> M + R > 0
            /\ numNodePods' # numNodePods =>
                  last'.sized /\ last'.k8sOK
            /\ (last'.sized /\ last'.k8sOK) =>
                  /\ numNodePods' = last'.resizeReq
                  /\ replicas' = last'.resizeReq
            /\ (last'.sized /\ ~last'.k8sOK) =>
                  /\ numNodePods' = numNodePods
                  /\ replicas' = replicas
            /\ last'.k8sUpdate => last'.resizeReq # replicas]_vars

\* an iteration that is not a full update and found the inventory equal to
\* the cache, yet updated the stateful set: the retry of a failed resize
C17_Witness ==
    /\ last.op = "tick"
    /\ ~last.updateAll
    /\ last.currNodes = last.cacheBefore
    /\ last.k8sUpdate
    /\ last.k8sOK
    /\ numNodePods = 2
    /\ replicas = 2

\* C18 as stated: a sizing writes the target file only when its resize of
\* the stateful set succeeded; after a failed resize the file is not
\* written.
C18_FileOnlyAfterResize ==
    (last.op = "size" /\ last.fileWritten) => last.k8sOK

\* C19 as stated: a sizing calls for a write of the target file exactly
\* when the computed pair of budgets differs from the recorded pair, and
\* the recorded pair changes only with a successful write of the file.
C19_RecordOnlyAfterWrite ==
    [][SizeNodes =>
        /\ last'.fileCall <=>
              (last'.sized /\ (\/ last'.newMtn # numMtnNodesPerPod
                               \/ last'.newRvr # numRvrNodesPerPod))
        /\ (\/ numMtnNodesPerPod' # numMtnNodesPerPod
            \/ numRvrNodesPerPod' # numRvrNodesPerPod) => last'.fileWritten
        /\ (last'.fileCall /\ ~last'.fileWritten) =>
              /\ numMtnNodesPerPod' = numMtnNodesPerPod
              /\ numRvrNodesPerPod' = numRvrNodesPerPod]_vars

\* how a reader of the target file takes it apart: the text is cut at every
\* newline, each line at its colon, and the digits are read as a decimal
RECURSIVE SplitLines(_, _)
SplitLines(text, line) ==
    IF text = << >> THEN (IF line = << >> THEN << >> ELSE <<line>>)
    ELSE IF Head(text) = "\n" THEN <<line>> \o SplitLines(Tail(text), << >>)
    ELSE SplitLines(Tail(text), Append(line, Head(text)))

DigitValue(c) == CHOOSE d \in 0..9 : DigitChars[d + 1] = c

IsDigits(chars) ==
    /\ chars # << >>
    /\ \A i \in 1..Len(chars) : \E d \in 1..10 : DigitChars[d] = chars[i]

RECURSIVE Atoi(_, _)
Atoi(chars, acc) ==
    IF chars = << >> THEN acc
    ELSE Atoi(Tail(chars), 10 * acc + DigitValue(Head(chars)))

HasLabel(line, label) ==
    /\ Len(line) > Len(label)
    /\ SubSeq(line, 1, Len(label)) = label
    /\ IsDigits(SubSeq(line, Len(label) + 1, Len(line)))

LineValue(line, label) == Atoi(SubSeq(line, Len(label) + 1, Len(line)), 0)

\* the pair a reader gets from the text, or "invalid"
ParseTargetFile(text) ==
    LET lines == SplitLines(text, << >>)
    IN  IF /\ Len(lines) = 2
           /\ text[Len(text)] = "\n"
           /\ HasLabel(lines[1], RiverLabel)
           /\ HasLabel(lines[2], MountainLabel)
        THEN [mtn |-> LineValue(lines[2], MountainLabel),
              rvr |-> LineValue(lines[1], RiverLabel)]
        ELSE "invalid"

\* C20: after a sizing that wrote the target file with the pair (mtn, rvr),
\* the text of the file is the line River:<rvr> followed by the line
\* Mountain:<mtn> and nothing else, whatever the file held before, and a
\* reader gets (mtn, rvr) back from it.
C20_FileRoundTrip ==
    (last.op = "size" /\ last.fileWritten) =>
        /\ Len(SplitLines(targetNodeFile, << >>)) = 2
        /\ ParseTargetFile(targetNodeFile)
              = [mtn |-> last.newMtn, rvr |-> last.newRvr]
        /\ ParseTargetFile(targetNodeFile)
              = [mtn |-> numMtnNodesPerPod, rvr |-> numRvrNodesPerPod]

\* a sizing of one mountain node that resized the stateful set to 2 and
\* wrote the file River:1 / Mountain:2
C20_Witness ==
    /\ last.op = "size"
    /\ last.fileWritten
    /\ last.numMtnNodes = 1
    /\ last.numRvrNodes = 0
    /\ numNodePods = 2
    /\ targetNodeFile = <<"R", "i", "v", "e", "r", ":", "1", "\n",
                          "M", "o", "u", "n", "t", "a", "i", "n", ":", "2",
                          "\n">>

(***************************************************************************)
(* The HTTP handlers of the console gateway.  A handler runs to its return *)
(* in one step and leaves in `last` the request it served, the calls it    *)
(* made and the answer it gave.                                            *)
(***************************************************************************)
\* r.Method as the console and lookup handlers meet it
Methods == {"GET", "POST"}

\* the node that a console request names
ConsoleNode == "x3000c0s1b0n0"

\* chi.URLParam(r, "nodeXname"): a node name, or nothing
XnameParams == {ConsoleNode, ""}

\* the Cray-Tenant-Name header of a request: absent, or a tenant
TenantHeaders == {"", "blue"}

\* what the console-data service sends back to GET /consolepod/<xname>, as
\* getURL sees it: no response at all, a response whose body is not JSON,
\* a JSON body without nodeconsolename under an error status, or the record
\* of a node claimed by worker 1
DataReplies ==
    { [err |-> TRUE,  status |-> -1,  json |-> FALSE, nodeconsolename |-> ""],
      [err |-> FALSE, status |-> 500, json |-> FALSE, nodeconsolename |-> ""],
      [err |-> FALSE, status |-> 404, json |-> TRUE,  nodeconsolename |-> ""],
      [err |-> FALSE, status |-> 200, json |-> TRUE,  nodeconsolename |-> "1"] }

\* the reply that stands for "no query was made"
NoReply == [err |-> TRUE, status |-> -1, json |-> FALSE, nodeconsolename |-> ""]

PodPrefix == "cray-console-node-"

\* getNodePodForXname: the status code getURL returns is dropped; an error
\* is returned when getURL fails or the body does not decode, and otherwise
\* the prefix joined with whatever nodeconsolename decoded to
getNodePodForXname(xname, reply) ==
    IF reply.err THEN [podName |-> "", err |-> TRUE]
    ELSE IF ~reply.json THEN [podName |-> "", err |-> TRUE]
    ELSE [podName |-> PodPrefix \o reply.nodeconsolename, err |-> FALSE]

\* how the exec stream ends once executor.Stream is called
StreamOutcomes == {"eof", "error"}

\* the command run in the worker pod
InteractCmd(xname) == <<"conman", "-j", xname>>
FollowCmd(xname) ==
    <<"tail", "-F", "-n 20", "/var/log/conman/console." \o xname>>

\* the record of a console request that returned before the upgrade
ConsoleRejected(op, method, xname, tenant, status, allow) ==
    [op |-> op, method |-> method, xname |-> xname, tenant |-> tenant,
     status |-> status, allow |-> allow,
     upgradeCalled |-> FALSE, upgraded |-> FALSE,
     lookupCalled |-> FALSE, reply |-> NoReply, lookupErr |-> FALSE,
     podName |-> "", cmd |-> << >>,
     streamCalled |-> FALSE, streamErr |-> FALSE,
     panicked |-> FALSE, closed |-> FALSE]

\* fault: the upgrade is made before the request is looked at
ConsoleHandlerUpgradeFirst(op, cmd, method, xname, tenant, upgradeOK, reply, executorOK, stream) ==
    [ConsoleRejected(op, method, xname, tenant,
                     IF upgradeOK THEN 101 ELSE 400, "")
        EXCEPT !.upgradeCalled = TRUE, !.upgraded = upgradeOK]

\* doInteractConsole and doFollowConsole differ in the command only:
\*   method check, xname check, upgrader.Upgrade, getNodePodForXname (its
\*   error is never read), the exec request for the pod named, the executor
\*   (a failure is logged and the nil executor is used: Stream panics),
\*   executor.Stream, and conn.Close() after a Stream that returned nil.
\* The deferred function writes a log line and closes nothing.
ConsoleHandler(op, cmd, method, xname, tenant, upgradeOK, reply, executorOK, stream) ==
    IF method # "GET"
    THEN ConsoleRejected(op, method, xname, tenant, 405, "GET")
    ELSE IF xname = ""
    THEN ConsoleRejected(op, method, xname, tenant, 400, "")
    ELSE IF ~upgradeOK
    THEN [ConsoleRejected(op, method, xname, tenant, 400, "")
             EXCEPT !.upgradeCalled = TRUE]
    ELSE LET found == getNodePodForXname(xname, reply)
         IN  [op |-> op, method |-> method, xname |-> xname,
              tenant |-> tenant, status |-> 101, allow |-> "",
              upgradeCalled |-> TRUE, upgraded |-> TRUE,
              lookupCalled |-> TRUE, reply |-> reply,
              lookupErr |-> found.err,
              podName |-> found.podName, cmd |-> cmd,
              streamCalled |-> executorOK,
              streamErr |-> executorOK /\ stream = "error",
              panicked |-> ~executorOK,
              closed |-> executorOK /\ stream = "eof"]

\* a console request served: the handler's record is left in `last`
ConsoleRequest(rec, upgradeOK, reply, executorOK, stream) ==
    /\ Running
    \* an outcome is drawn only for a call that is made
    /\ ~rec.upgradeCalled => upgradeOK
    /\ ~rec.lookupCalled => reply = NoReply /\ executorOK
    /\ ~rec.streamCalled => stream = "eof"
    /\ last' = rec
    /\ UNCHANGED <<heartbeatStaleMinutes, nodeCache, numNodePods, numRvrNodesPerPod,
                   numMtnNodesPerPod, maxMtnNodesPerPod, maxRvrNodesPerPod,
                   hardwareUpdateTime, inShutdown, forceUpdateCnt,
                   updateMtnKey, replicas, targetNodeFile, now, mainPc>>

\* GET /interact/{nodeXname}
doInteractConsole ==
    \E method \in Methods, xname \in XnameParams, tenant \in TenantHeaders,
       upgradeOK \in BOOLEAN, reply \in DataReplies, executorOK \in BOOLEAN,
       stream \in StreamOutcomes :
        /\ ConsoleRequest(ConsoleHandler("interact", InteractCmd(xname),
                                         method, xname, tenant, upgradeOK,
                                         reply, executorOK, stream),
                          upgradeOK, reply, executorOK, stream)

\* GET /follow/{nodeXname}
doFollowConsole ==
    \E method \in Methods, xname \in XnameParams, tenant \in TenantHeaders,
       upgradeOK \in BOOLEAN, reply \in DataReplies, executorOK \in BOOLEAN,
       stream \in StreamOutcomes :
        /\ ConsoleRequest(ConsoleHandler("follow", FollowCmd(xname),
                                         method, xname, tenant, upgradeOK,
                                         reply, executorOK, stream),
                          upgradeOK, reply, executorOK, stream)

\* an iteration with every collaborator answering, over an inventory that
\* holds the console node or holds nothing
WatchHardwareConsoleTick ==
    \E fetch \in {f \in FetchResults :
                    f.ok /\ f.nodes \in {{}, {NodeInfo(ConsoleNode)}}} :
        HardwareUpdate(fetch, TRUE, "ok", "ok", TRUE)

NextGateway ==
    \/ WatchHardwareConsoleTick
    \/ doInteractConsole
    \/ doFollowConsole

\* the reconcile loop next to the two console endpoints, with the upgrade,
\* the data service and the exec stream free to fail
SpecGateway == Init /\ [][NextGateway]_vars

ConsoleOps == {"interact", "follow"}

(***************************************************************************)
(* The console endpoints.                                                  *)
(***************************************************************************)
\* a console request that got past the method and the parameter checks
ConsoleServed ==
    /\ last.op \in ConsoleOps
    /\ last.method = "GET"
    /\ last.xname # ""

\* C21: a GET on /interact or /follow for a node id that is not a key of the
\* node cache is answered 404, the connection is not upgraded and no exec
\* stream is opened.
C21_UnknownNodeIs404 ==
    (ConsoleServed /\ last.xname \notin DOMAIN nodeCache)
        => /\ last.status = 404
           /\ ~last.upgradeCalled
           /\ ~last.streamCalled

\* C22: when the worker lookup returns an error, /interact and /follow answer
\* 404 and do not open an exec stream.
C22_LookupFailureIs404 ==
    (last.op \in ConsoleOps /\ last.lookupCalled /\ last.lookupErr)
        => /\ last.status = 404
           /\ ~last.streamCalled

\* the nodes a tenant may reach: tenant blue's allow-list holds one node,
\* and it is not the console node
TenantAllowList(tenant) == IF tenant = "blue" THEN {"x1000c0s0b0n0"} ELSE {}

\* C23: a console request that carries Cray-Tenant-Name for a tenant whose
\* allow-list does not hold the node is answered 403, is not upgraded and
\* opens no exec stream.
C23_TenantDenied ==
    (ConsoleServed /\ last.tenant # ""
        /\ last.xname \notin TenantAllowList(last.tenant))
        => /\ last.status = 403
           /\ ~last.upgradeCalled
           /\ ~last.streamCalled

\* C24: on /interact and /follow a method other than GET is answered 405 with
\* the header Allow: GET, and a GET with an empty nodeXname is answered 400;
\* both return before the upgrade, the worker lookup and the exec stream.
C24_RejectBeforeUpgrade ==
    last.op \in ConsoleOps =>
        /\ last.method # "GET" =>
              /\ last.status = 405 /\ last.allow = "GET"
              /\ ~last.upgradeCalled /\ ~last.lookupCalled
              /\ ~last.streamCalled
        /\ (last.method = "GET" /\ last.xname = "") =>
              /\ last.status = 400
              /\ ~last.upgradeCalled /\ ~last.lookupCalled
              /\ ~last.streamCalled

\* a POST for a named node on /follow was answered 405 with Allow: GET
C24_Witness ==
    /\ last.op = "follow"
    /\ last.method = "POST"
    /\ last.xname = ConsoleNode
    /\ last.status = 405
    /\ last.allow = "GET"

\* C25: once the connection is upgraded the handler closes the websocket on
\* every way out: the stream ending, the exec set-up failing, the stream
\* aborting.
C25_UpgradedIsClosed ==
    (last.op \in ConsoleOps /\ last.upgraded) => last.closed

(***************************************************************************)
(* The lookup, location and budget-maxima endpoints.                       *)
(***************************************************************************)
\* the Content-type header of a request
ContentTypes == {"application/json", "text/plain"}

\* the body of GET /getNodePod: {"xname": ...}, or text that does not decode
NodePodBodies ==
    { [json |-> TRUE,  xname |-> ConsoleNode],
      [json |-> FALSE, xname |-> ""] }

\* the record of a lookup request that returned before the query
NodePodRejected(method, contentType, body, status, allow) ==
    [op |-> "getNodePod", method |-> method, contentType |-> contentType,
     body |-> body, status |-> status, allow |-> allow,
     lookupCalled |-> FALSE, reply |-> NoReply, lookupErr |-> FALSE,
     podname |-> ""]

\* doGetNodePod: method, content type, body decode, getNodePodForXname, and
\* 500 on its error or 200 with the pod name
NodePodHandler(method, contentType, body, reply) ==
    IF method # "GET"
    THEN NodePodRejected(method, contentType, body, 405, "GET")
    ELSE IF contentType # "application/json"
    THEN NodePodRejected(method, contentType, body, 400, "")
    ELSE IF ~body.json
    THEN NodePodRejected(method, contentType, body, 400, "")
    ELSE LET found == getNodePodForXname(body.xname, reply)
         IN  [NodePodRejected(method, contentType, body,
                              IF found.err THEN 500 ELSE 200, "")
                 EXCEPT !.lookupCalled = TRUE, !.reply = reply,
                        !.lookupErr = found.err, !.podname = found.podName]

\* GET /getNodePod
doGetNodePod ==
    \E method \in Methods, contentType \in ContentTypes,
       body \in NodePodBodies, reply \in DataReplies :
        LET rec == NodePodHandler(method, contentType, body, reply)
        IN  /\ Running
            \* an outcome is drawn only for a call that is made
            /\ ~rec.lookupCalled => reply = NoReply
            /\ last' = rec
            /\ UNCHANGED <<heartbeatStaleMinutes, nodeCache, numNodePods, numRvrNodesPerPod,
                           numMtnNodesPerPod, maxMtnNodesPerPod,
                           maxRvrNodesPerPod, hardwareUpdateTime, inShutdown,
                           forceUpdateCnt, updateMtnKey, replicas,
                           targetNodeFile, now, mainPc>>

\* chi.URLParam(r, "podID")
PodIDs == {"pod-1234", "cray-console-node-1"}

\* what getPodLocation returns: the cluster node of the pod, or an error
PodLocations ==
    { [err |-> FALSE, loc |-> "node-foo"],
      [err |-> FALSE, loc |-> "ncn-w001"],
      [err |-> TRUE,  loc |-> ""] }

\* fault: the two fields of the answer are exchanged
PodLocationHandlerSwapped(method, podID, where) ==
    IF method # "GET"
    THEN [op |-> "location", method |-> method, podID |-> podID,
          status |-> 405, allow |-> "GET", locCalled |-> FALSE,
          where |-> where, podname |-> "", node |-> ""]
    ELSE [op |-> "location", method |-> method, podID |-> podID,
          status |-> IF where.err THEN 404 ELSE 200, allow |-> "",
          locCalled |-> TRUE, where |-> where,
          podname |-> IF where.err THEN "" ELSE where.loc,
          node |-> IF where.err THEN "" ELSE podID]

\* doGetPodLocation: GET only; the pod named in the URL is handed to
\* getPodLocation and the answer carries that name and the node returned
PodLocationHandler(method, podID, where) ==
    IF method # "GET"
    THEN [op |-> "location", method |-> method, podID |-> podID,
          status |-> 405, allow |-> "GET", locCalled |-> FALSE,
          where |-> where, podname |-> "", node |-> ""]
    ELSE [op |-> "location", method |-> method, podID |-> podID,
          status |-> IF where.err THEN 404 ELSE 200, allow |-> "",
          locCalled |-> TRUE, where |-> where,
          podname |-> IF where.err THEN "" ELSE podID,
          node |-> IF where.err THEN "" ELSE where.loc]

\* GET /location/{podID}
doGetPodLocation ==
    \E method \in Methods, podID \in PodIDs, where \in PodLocations :
        LET rec == PodLocationHandler(method, podID, where)
        IN  /\ Running
            \* an outcome is drawn only for a call that is made
            /\ ~rec.locCalled => where.err
            /\ last' = rec
            /\ UNCHANGED <<heartbeatStaleMinutes, nodeCache, numNodePods, numRvrNodesPerPod,
                           numMtnNodesPerPod, maxMtnNodesPerPod,
                           maxRvrNodesPerPod, hardwareUpdateTime, inShutdown,
                           forceUpdateCnt, updateMtnKey, replicas,
                           targetNodeFile, now, mainPc>>

\* r.Method as PATCH /maxNodesPerPod meets it
PatchMethods == {"PATCH", "GET"}

\* the body of PATCH /maxNodesPerPod: a decoded pair, or text that does not
\* decode
PatchRequestBodies ==
    {[json |-> TRUE, inData |-> d] : d \in PatchBodies}
        \cup {[json |-> FALSE, inData |-> [maxMtn |-> 0, maxRvr |-> 0]]}

\* doSetMaxNodesPerPod with its request checks: 405 with Allow: PATCH, 400
\* on a content type other than application/json or a body that does not
\* decode, and otherwise both maxima pinned and stored, answered 200
\* whether or not a value was pinned
PatchMaxNodesPerPod ==
    \E method \in PatchMethods, contentType \in ContentTypes,
       body \in PatchRequestBodies :
        LET rejected == method # "PATCH" \/ contentType # "application/json"
                           \/ ~body.json
            status   == IF method # "PATCH" THEN 405
                        ELSE IF rejected THEN 400 ELSE 200
        IN  /\ Running
            /\ maxMtnNodesPerPod' =
                  IF rejected THEN maxMtnNodesPerPod
                  ELSE pinNumNodes(body.inData.maxMtn, PinMin, PinMaxMtn)
            /\ maxRvrNodesPerPod' =
                  IF rejected THEN maxRvrNodesPerPod
                  ELSE pinNumNodes(body.inData.maxRvr, PinMin, PinMaxRvr)
            /\ last' = [op |-> "setMax", method |-> method,
                        contentType |-> contentType, body |-> body,
                        status |-> status,
                        allow |-> IF method # "PATCH" THEN "PATCH" ELSE ""]
            /\ UNCHANGED <<heartbeatStaleMinutes, nodeCache, numNodePods, numRvrNodesPerPod,
                           numMtnNodesPerPod, hardwareUpdateTime, inShutdown,
                           forceUpdateCnt, updateMtnKey, replicas,
                           targetNodeFile, now, mainPc>>

NextEndpoints ==
    \/ doGetNodePod
    \/ doGetPodLocation
    \/ PatchMaxNodesPerPod

\* the lookup, location and maxima endpoints, with the data service and the
\* cluster free to fail
SpecEndpoints == Init /\ [][NextEndpoints]_vars

(***************************************************************************)
(* The lookup, location and maxima endpoints.                              *)
(***************************************************************************)
\* a lookup request that passed the request checks and queried the service
NodePodQueried == last.op = "getNodePod" /\ last.lookupCalled

\* the data service did not hand back the record of a claimed node
QueryFailed(reply) ==
    reply.err \/ reply.status >= 400 \/ ~reply.json
        \/ reply.nodeconsolename = ""

\* C26: for a node claimed by worker W a well-formed GET /getNodePod answers
\* 200 with podname cray-console-node-<W>; when the data-service query
\* fails the answer is 500; a body that is not JSON or a content type other
\* than application/json is answered 400.
C26_NodePodAnswers ==
    (last.op = "getNodePod" /\ last.method = "GET") =>
        /\ (last.contentType # "application/json" \/ ~last.body.json)
              => last.status = 400
        /\ (last.lookupCalled /\ ~QueryFailed(last.reply))
              => /\ last.status = 200
                 /\ last.podname = PodPrefix \o last.reply.nodeconsolename
        /\ (last.lookupCalled /\ QueryFailed(last.reply))
              => last.status = 500

\* C27: after a PATCH /maxNodesPerPod {maxMtn: a, maxRvr: b} answered 200
\* the stored maxMtn is a brought into [2, 750] and the stored maxRvr is b
\* brought into [2, 2000]; a well-formed PATCH is answered 200 whether or
\* not a value was out of range.
C27_PatchClamps ==
    last.op = "setMax" =>
        LET a == last.body.inData.maxMtn
            b == last.body.inData.maxRvr
        IN  /\ (last.method = "PATCH" /\ last.contentType = "application/json"
                  /\ last.body.json) => last.status = 200
            /\ last.status = 200 =>
                  /\ maxMtnNodesPerPod \in 2..750
                  /\ maxRvrNodesPerPod \in 2..2000
                  /\ a < 2 => maxMtnNodesPerPod = 2
                  /\ a > 750 => maxMtnNodesPerPod = 750
                  /\ a \in 2..750 => maxMtnNodesPerPod = a
                  /\ b < 2 => maxRvrNodesPerPod = 2
                  /\ b > 2000 => maxRvrNodesPerPod = 2000
                  /\ b \in 2..2000 => maxRvrNodesPerPod = b

\* PATCH {maxMtn: 10000, maxRvr: 1} was answered 200 and stored 750 and 2
C27_Witness ==
    /\ last.op = "setMax"
    /\ last.status = 200
    /\ last.body.inData = [maxMtn |-> 10000, maxRvr |-> 1]
    /\ maxMtnNodesPerPod = 750
    /\ maxRvrNodesPerPod = 2

\* C28: the node cache and the fleet sizing (worker count and the two per-pod
\* budgets) change only in a step of the reconcile loop; no HTTP handler
\* changes them.
C28_OnlyReconcilerWrites ==
    [][(\/ nodeCache' # nodeCache
        \/ numNodePods' # numNodePods
        \/ numMtnNodesPerPod' # numMtnNodesPerPod
        \/ numRvrNodesPerPod' # numRvrNodesPerPod) => WatchHardwareTick]_vars

\* C29: GET /location/{podID}, when the cluster names the pod's node, is
\* answered 200 with podname equal to the podID of the URL and node equal to
\* the node name the cluster adapter returned.
C29_PodLocationAnswer ==
    (last.op = "location" /\ last.method = "GET" /\ ~last.where.err) =>
        /\ last.status = 200
        /\ last.podname = last.podID
        /\ last.node = last.where.loc

\* the request of TestDoGetPodLocation: pod-1234 on node-foo
C29_Witness ==
    /\ last.op = "location"
    /\ last.method = "GET"
    /\ last.podID = "pod-1234"
    /\ last.where = [err |-> FALSE, loc |-> "node-foo"]
    /\ last.status = 200
    /\ last.podname = "pod-1234"
    /\ last.node = "node-foo"

\* C30: getNodePodForXname returns an error whenever the node is not
\* claimed, also when the data service answers with a status of 400 or more
\* or with a body without nodeconsolename; it never returns the bare prefix
\* cray-console-node- as a success.
C30_UnclaimedIsError ==
    NodePodQueried =>
        /\ QueryFailed(last.reply) => last.lookupErr
        /\ ~last.lookupErr => last.podname # PodPrefix

(***************************************************************************)
(* checkHeartbeats: the loop that asks the data service to release the     *)
(* nodes of workers whose heartbeat is stale.                              *)
(***************************************************************************)
\* the record of one iteration: the DELETE calls made, by the minutes in
\* their URL, and whether the call failed
HeartbeatRecord(minutes, err) ==
    [op |-> "heartbeat", reapCalls |-> <<minutes>>, err |-> err,
     afterErr |-> last.op = "heartbeat" /\ last.err]

\* fault: the iteration is skipped while inShutdown is set
checkHeartbeatsGated ==
    \E err \in BOOLEAN :
        /\ Running
        /\ ~inShutdown
        /\ last' = HeartbeatRecord(heartbeatStaleMinutes, err)
        /\ UNCHANGED <<heartbeatStaleMinutes, nodeCache, numNodePods,
                       numRvrNodesPerPod, numMtnNodesPerPod, maxMtnNodesPerPod,
                       maxRvrNodesPerPod, hardwareUpdateTime, inShutdown,
                       forceUpdateCnt, updateMtnKey, replicas, targetNodeFile,
                       now, mainPc>>

\* one iteration: DELETE <dataAddrBase>/consolepod/<heartbeatStaleMinutes>/clear,
\* an error is logged, then the sleep
checkHeartbeats ==
    \E err \in BOOLEAN :
        /\ Running
        /\ last' = HeartbeatRecord(heartbeatStaleMinutes, err)
        /\ UNCHANGED <<heartbeatStaleMinutes, nodeCache, numNodePods,
                       numRvrNodesPerPod, numMtnNodesPerPod, maxMtnNodesPerPod,
                       maxRvrNodesPerPod, hardwareUpdateTime, inShutdown,
                       forceUpdateCnt, updateMtnKey, replicas, targetNodeFile,
                       now, mainPc>>

\* main has read HEARTBEAT_STALE_DURATION_MINUTES from the environment
InitHeartbeat == \E staleEnv \in EnvValues : InitEnv(staleEnv)

NextHeartbeat ==
    \/ checkHeartbeats
    \/ WatchHardwareConsoleTick
    \/ WatchHardwareSkip
    \/ doSuspend
    \/ doResume

\* the heartbeat loop next to the reconcile loop and the pause flag, under
\* every setting of the stale duration
SpecHeartbeat == InitHeartbeat /\ [][NextHeartbeat]_vars

\* C31: every iteration of the heartbeat loop makes exactly one clear call,
\* carrying the current stale duration (which lies in 1..60), and changes
\* nothing of the cache, the sizing, the countdown or the latches; while the
\* process runs the next iteration can always be taken, after a failed call
\* and with inShutdown set as well.
C31_HeartbeatTick ==
    [][/\ Running => ENABLED checkHeartbeats
       /\ IF checkHeartbeats
          THEN /\ Len(last'.reapCalls) = 1
               /\ last'.reapCalls[1] = heartbeatStaleMinutes
               /\ last'.reapCalls[1] \in 1..60
               /\ UNCHANGED <<nodeCache, numNodePods, numRvrNodesPerPod,
                              numMtnNodesPerPod, maxMtnNodesPerPod,
                              maxRvrNodesPerPod, replicas, targetNodeFile,
                              forceUpdateCnt, updateMtnKey, inShutdown>>
          ELSE TRUE]_vars

\* with the stale duration set to 100 and pinned to 60, and inShutdown set,
\* a clear call for 60 minutes follows a clear call that failed
C31_Witness ==
    /\ last.op = "heartbeat"
    /\ last.afterErr
    /\ last.reapCalls = <<60>>
    /\ inShutdown
    /\ nodeCache # EmptyCache

(***************************************************************************)
(* The reconcile loop with every collaborator free to fail.                *)
(***************************************************************************)
\* what the inventory hands over in this specification: nothing (a failed
\* query) or the Mountain node
FailureFetches ==
    { [ok |-> FALSE, nodes |-> {}],
      [ok |-> TRUE, nodes |-> {NodeInfo("x1000c0s0b0n0")}] }

\* an iteration in which the inventory, the register call, the deregister
\* call, the resize and the key staging may each fail
WatchHardwareFailingTick ==
    \E fetch \in FailureFetches, dsOK \in BOOLEAN, rmOK \in BOOLEAN,
       k8s \in {"ok", "updateFail"}, keyOK \in BOOLEAN :
        /\ WatchHardwareIteration(fetch, dsOK, rmOK, k8s, "ok", keyOK)

NextFailures ==
    \/ WatchHardwareFailingTick

\* watchHardware is a goroutine of its own whose loop body ends in a sleep:
\* while the process runs and inShutdown is clear, an iteration that can be
\* taken is taken
SpecFailures ==
    Init /\ [][NextFailures]_vars /\ WF_vars(WatchHardwareFailingTick)

EndpointIDs ==
    { <<"x", "0", "b", "0">>, <<"x", "1", "b", "0">>, <<"x", "2", "b", "0">> }

\* state components the manager may report: two nodes, a component that is
\* not a node, and a component of type Node whose id holds no 'n'
StateComponents ==
    { [ID |-> <<"x", "0", "b", "0", "n", "0">>, Type |-> "Node",
       Class |-> "River"],
      [ID |-> <<"x", "1", "b", "0", "n", "1">>, Type |-> "Node",
       Class |-> "Mountain"],
      [ID |-> <<"x", "0", "b", "0">>, Type |-> "NodeBMC", Class |-> "River"],
      [ID |-> <<"x", "2", "b", "0">>, Type |-> "Node", Class |-> "River"] }

\* getRedfishEndpoints / getStateComponents: an error, or the list
HsmReplies(items) ==
    {[err |-> TRUE, list |-> {}]}
        \cup {[err |-> FALSE, list |-> l] : l \in SUBSET items}

\* strings.LastIndex(s, c): the index, counted from 0, of the last c in s,
\* or -1
LastIndex(s, c) ==
    LET at == {i \in 1..Len(s) : s[i] = c}
    IN  IF at = {} THEN -1 ELSE (CHOOSE i \in at : \A j \in at : j <= i) - 1

\* sc.ID[0:strings.LastIndex(sc.ID, "n")]: a slice with a negative bound
\* panics
BmcSlice(id) ==
    LET hi == LastIndex(id, "n")
    IN  IF hi < 0 THEN [panic |-> TRUE, bmcName |-> << >>]
        ELSE [panic |-> FALSE, bmcName |-> SubSeq(id, 1, hi)]

\* getCurrentNodesFromHSM: nil when either query fails; otherwise a node for
\* every component of type Node whose BMC is a redfish endpoint.  The slice
\* is taken for every component of type Node, before the endpoint is looked
\* up, and its panic is not recovered anywhere.
GetCurrentNodesFromHSM(rf, sc) ==
    IF rf.err \/ sc.err
    THEN [panicked |-> FALSE, nodes |-> {}]
    ELSE LET typed == {c \in sc.list : c.Type = "Node"}
         IN  IF \E c \in typed : BmcSlice(c.ID).panic
             THEN [panicked |-> TRUE, nodes |-> {}]
             ELSE [panicked |-> FALSE,
                   nodes |-> {[NodeName |-> c.ID, Class |-> c.Class,
                               BmcName |-> BmcSlice(c.ID).bmcName] :
                                 c \in {t \in typed :
                                          BmcSlice(t.ID).bmcName \in rf.list}}]

\* the inventory is fetched; a panic in the watchHardware goroutine ends
\* the process
FetchNodes ==
    \E rf \in HsmReplies(EndpointIDs), sc \in HsmReplies(StateComponents) :
        LET got == GetCurrentNodesFromHSM(rf, sc)
        IN  /\ Running
            /\ ~inShutdown
            \* the components are queried only when the endpoints arrived
            /\ rf.err => sc.err
            /\ last' = [op |-> "fetch", rf |-> rf, sc |-> sc,
                        panicked |-> got.panicked, nodes |-> got.nodes]
            /\ mainPc' = IF got.panicked THEN "exited" ELSE mainPc
            /\ UNCHANGED <<heartbeatStaleMinutes, nodeCache, numNodePods,
                           numRvrNodesPerPod, numMtnNodesPerPod,
                           maxMtnNodesPerPod, maxRvrNodesPerPod,
                           hardwareUpdateTime, inShutdown, forceUpdateCnt,
                           updateMtnKey, replicas, targetNodeFile, now>>

NextInventory ==
    \/ FetchNodes

\* the inventory fetch under every answer of the hardware state manager
SpecInventory == Init /\ [][NextInventory]_vars

\* the id holds an 'n'
HasN(id) == \E i \in 1..Len(id) : id[i] = "n"

\* the id cut before its last 'n'
BeforeLastN(id) ==
    SubSeq(id, 1, (CHOOSE i \in 1..Len(id) :
                      id[i] = "n" /\ \A j \in (i+1)..Len(id) : id[j] # "n") - 1)

\* C33: when both queries succeed the fetch goes through and emits a node
\* for a state component exactly when its Type is Node, its id holds an 'n'
\* and the id cut before its last 'n' is the id of a redfish endpoint; every
\* other component is skipped.
C33_FetchFilter ==
    (last.op = "fetch" /\ ~last.rf.err /\ ~last.sc.err) =>
        /\ ~last.panicked
        /\ mainPc # "exited"
        /\ \A c \in last.sc.list :
              (\E n \in last.nodes : n.NodeName = c.ID)
                  <=> /\ c.Type = "Node"
                      /\ HasN(c.ID)
                      /\ BeforeLastN(c.ID) \in last.rf.list

\* the place of a step in the order the tick is to follow
StepRank(ev) ==
    CASE ev = "cacheInsert" -> 1
      [] ev = "cacheDelete" -> 2
      [] ev = "register"    -> 3
      [] ev = "deregister"  -> 4
      [] ev = "resize"      -> 5
      [] ev = "file"        -> 6
      [] ev = "keys"        -> 7

\* C34: in a reconcile tick the cache insertions and deletions come first,
\* then the register and deregister calls, then the resize, then the
\* budget-file write, and the key staging last; while the resize, the file
\* write or the key staging runs the cache already holds the set the tick
\* leaves behind.
C34_TickOrder ==
    last.op = "tick" =>
        /\ \A i, j \in 1..Len(last.trace) :
              i < j => StepRank(last.trace[i].ev) < StepRank(last.trace[j].ev)
        /\ \A i \in 1..Len(last.trace) :
              last.trace[i].ev \in {"resize", "file", "keys"}
                  => last.trace[i].cache = DOMAIN nodeCache

\* a tick that inserted and deleted cache entries, registered, deregistered,
\* resized, wrote the file and staged keys
C34_Witness ==
    /\ last.op = "tick"
    /\ Len(last.trace) = 7
    /\ last.added # {} /\ last.removed # {}
    /\ last.sized /\ last.fileCall /\ last.keyList # {}

(***************************************************************************)
(* doClearData next to doHardwareUpdate.  The handler runs in a goroutine  *)
(* of the HTTP server, the reconcile loop in its own, and neither takes a  *)
(* lock: the handler's nodeCache = make(...) can land anywhere in an       *)
(* iteration.                                                              *)
(***************************************************************************)
\* the places of an iteration where the swap of the map matters: inside the
\* first loop, or after the second loop has started its range
ClearPoints == {"firstLoop", "secondLoop"}

\* one iteration with a DELETE /clearData served while it runs.  The first
\* loop has handled the nodes of P when the handler copies the entries and
\* swaps in the empty map; at "firstLoop" the rest of the first loop and the
\* second loop work on the new map, at "secondLoop" (P is all of currNodes)
\* the range of the second loop keeps the old map and only the deletes go
\* to the new one.  Every collaborator answers.
WatchHardwareRacingIteration(fetch, P, point) ==
    LET updateAll       == forceUpdateCnt = 0
        redeployMtnKeys == updateMtnKey
        currNodes       == fetch.nodes
        newP            == NewNodes(nodeCache, P)
        cacheP          == AddToCache(nodeCache, newP)
        rn              == Values(cacheP)
        Q               == currNodes \ P
        cache1          == IF point = "firstLoop"
                           THEN AddToCache(EmptyCache, NewNodes(EmptyCache, Q))
                           ELSE cacheP
        newNodes        == newP \cup NewNodes(EmptyCache, Q)
        addList         == AddPayload(cache1, newNodes, updateAll)
        newMtnNodes     == KeyList(cache1, newNodes, redeployMtnKeys)
        removedNodes    == RemovedNodes(cache1, currNodes)
        numRvrNodes     == CountRvr(cache1, currNodes)
        numMtnNodes     == CountMtn(cache1, currNodes)
        z               == UpdateNodeCounts(numMtnNodes, numRvrNodes,
                                            SizingState, "ok", "ok")
        cache2          == IF point = "firstLoop"
                           THEN RemoveFromCache(cache1, removedNodes)
                           ELSE EmptyCache
    IN  /\ Running
        /\ ~inShutdown
        /\ P \subseteq currNodes
        /\ point = "secondLoop" => P = currNodes
        /\ hardwareUpdateTime' = now
        /\ nodeCache' = cache2
        /\ replicas' = z.replicas
        /\ numNodePods' = z.numNodePods
        /\ targetNodeFile' = z.targetNodeFile
        /\ numMtnNodesPerPod' = z.numMtnNodesPerPod
        /\ numRvrNodesPerPod' = z.numRvrNodesPerPod
        /\ forceUpdateCnt' = NextForceUpdateCnt(forceUpdateCnt, TRUE)
        /\ updateMtnKey' = NextUpdateMtnKey(TRUE)
        /\ now' = (now + 1) % ClockSize
        /\ last' = [op |-> "tick", hsmOK |-> fetch.ok, currNodes |-> currNodes,
                    cacheBefore |-> Values(nodeCache),
                    updateAll |-> updateAll, redeployMtnKeys |-> redeployMtnKeys,
                    added |-> addList, removed |-> removedNodes,
                    keyList |-> newMtnNodes,
                    updateSuccess |-> TRUE, keySuccess |-> TRUE,
                    removeOK |-> TRUE,
                    afterClear |-> FALSE,
                    \* doClearData has returned during the iteration, its
                    \* deregister payload was rn
                    cleared |-> TRUE, clearPayload |-> rn,
                    trace |-> TickTrace(nodeCache, cache1, cache2,
                                        newNodes, addList, removedNodes,
                                        newMtnNodes, z),
                    numMtnNodes |-> numMtnNodes, numRvrNodes |-> numRvrNodes,
                    maxMtn |-> maxMtnNodesPerPod, maxRvr |-> maxRvrNodesPerPod,
                    sized |-> z.sized, resizeReq |-> z.resizeReq,
                    k8sUpdate |-> z.k8sUpdate, k8sOK |-> z.k8sOK,
                    newMtn |-> z.newMtn, newRvr |-> z.newRvr,
                    fileCall |-> z.fileCall, fileWritten |-> z.fileWritten]
        /\ UNCHANGED <<heartbeatStaleMinutes, maxMtnNodesPerPod, maxRvrNodesPerPod, inShutdown,
                       mainPc>>

\* the inventories of the race: successful fetches over two nodes
RaceFetches ==
    {f \in FetchResults :
        f.ok /\ Names(f.nodes) \subseteq {"x1000c0s0b0n0", "x3000c0s1b0n0"}}

WatchHardwareRacingTick ==
    \E fetch \in RaceFetches, point \in ClearPoints :
        \E P \in SUBSET fetch.nodes :
            /\ WatchHardwareRacingIteration(fetch, P, point)

\* the Go runtime finds the map written by one goroutine while the other
\* reads or ranges over it and ends the process ("fatal error: concurrent
\* map ...")
WatchHardwareRacingFatal ==
    /\ Running
    /\ ~inShutdown
    /\ mainPc' = "exited"
    /\ hardwareUpdateTime' = now
    /\ last' = [NoOp EXCEPT !.op = "fatal"]
    /\ UNCHANGED <<heartbeatStaleMinutes, nodeCache, numNodePods, numRvrNodesPerPod, numMtnNodesPerPod,
                   maxMtnNodesPerPod, maxRvrNodesPerPod, inShutdown,
                   forceUpdateCnt, updateMtnKey, replicas, targetNodeFile,
                   now>>

\* an iteration served by every collaborator, no request in between
WatchHardwareAloneTick ==
    \E fetch \in RaceFetches :
        /\ HardwareUpdate(fetch, TRUE, "ok", "ok", TRUE)

NextRace ==
    \/ WatchHardwareAloneTick
    \/ WatchHardwareRacingTick
    \/ WatchHardwareRacingFatal
    \/ doClearData

\* the reconcile loop and DELETE /clearData, the request served between two
\* iterations or during one
SpecRace == Init /\ [][NextRace]_vars

(***************************************************************************)
(* C35: DELETE /clearData leaves the cache empty and makes one deregister  *)
(* call whose payload is exactly the entries the cache held; the first     *)
(* reconcile iteration that starts after it and fetches a non-empty        *)
(* inventory puts every inventory node in its register payload.            *)
(***************************************************************************)
C35_ClearThenReAdd ==
    [][/\ doClearData =>
            /\ nodeCache' = EmptyCache
            /\ last'.removed = Values(nodeCache)
            /\ Len(last'.trace) = 1 /\ last'.trace[1].ev = "deregister"
       /\ (last'.op = "tick" /\ last'.afterClear /\ last'.currNodes # {}) =>
            /\ last'.currNodes \subseteq last'.added
            /\ \E i \in 1..Len(last'.trace) : last'.trace[i].ev = "register"]_vars

(***************************************************************************)
(* The cached record of a node.  The first loop of doHardwareUpdate writes *)
(* nodeCache[n.NodeName] only for a name that is not cached, so the state  *)
(* manager can report a cached node with other attributes than the cache   *)
(* holds.                                                                  *)
(***************************************************************************)
\* what the state manager may report: x1000c0s0b0n0 with either class,
\* x3000c0s1b0n0 as it always is
ReportedNodes ==
    {[NodeName |-> "x1000c0s0b0n0", Class |-> c] : c \in {"Mountain", "River"}}
        \cup {NodeInfo("x3000c0s1b0n0")}

\* successful fetches; a component id occurs once in a reply
ReportedFetches ==
    {[ok |-> TRUE, nodes |-> S] :
        S \in {T \in SUBSET ReportedNodes :
                  \A a, b \in T : a.NodeName = b.NodeName => a = b}}

WatchHardwareReportedTick ==
    \E fetch \in ReportedFetches :
        /\ HardwareUpdate(fetch, TRUE, "ok", "ok", TRUE)

NextRecords ==
    \/ WatchHardwareReportedTick

\* the reconcile loop alone, every collaborator answering, the reported
\* attributes of a node free to change between fetches
SpecRecords == Init /\ [][NextRecords]_vars

(***************************************************************************)
(* C36: after a reconcile iteration that fetched a non-empty inventory,    *)
(* with nothing else writing the cache, the keys of the cache are the node *)
(* ids of that inventory, and an id that was cached before the iteration   *)
(* keeps the record it had.                                                *)
(***************************************************************************)
C36_CacheIsInventory ==
    [][(WatchHardwareReportedTick /\ last'.currNodes # {}) =>
            /\ DOMAIN nodeCache' = Names(last'.currNodes)
            /\ \A k \in DOMAIN nodeCache \cap DOMAIN nodeCache' :
                    nodeCache'[k] = nodeCache[k]
            /\ \A k \in DOMAIN nodeCache' \ DOMAIN nodeCache :
                    nodeCache'[k] \in last'.currNodes]_vars

\* an iteration has dropped a node, and keeps for another the record first
\* inserted although the inventory now reports it differently
C36_Witness ==
    /\ last.op = "tick" /\ last.currNodes # {}
    /\ last.removed # {}
    /\ \E n \in last.currNodes :
            /\ n.NodeName \in DOMAIN nodeCache
            /\ nodeCache[n.NodeName] # n
            /\ nodeCache[n.NodeName] \in last.cacheBefore

(***************************************************************************)
(* dataRemoveNodes returns nothing: doHardwareUpdate cannot tell a failed  *)
(* deregister call from a successful one.                                  *)
(***************************************************************************)
\* the inventories of the deregistration runs: a failed query, or any
\* successful fetch over two nodes
DeregisterFetches ==
    {f \in FetchResults :
        Names(f.nodes) \subseteq {"x1000c0s0b0n0", "x3000c0s1b0n0"}}

\* an iteration whose register, deregister and key staging calls may fail
WatchHardwareDeregisterTick ==
    \E fetch \in DeregisterFetches, dsOK \in BOOLEAN, rmOK \in BOOLEAN,
       keyOK \in BOOLEAN :
        /\ WatchHardwareIteration(fetch, dsOK, rmOK, "ok", "ok", keyOK)

NextDeregister ==
    \/ WatchHardwareDeregisterTick

\* the reconcile loop alone, the data service and the key staging free to
\* fail
SpecDeregister == Init /\ [][NextDeregister]_vars

(***************************************************************************)
(* C37: a cached node that the inventory no longer lists is in the         *)
(* deregister payload of the iteration that finds it missing and, whether  *)
(* or not that call succeeds, leaves the cache with it, so that no later   *)
(* iteration sends it again while it stays away; a failed deregister call  *)
(* leaves the countdown, the key flag and inShutdown as a successful one   *)
(* does.                                                                   *)
(***************************************************************************)
C37_DeregisterOnce ==
    [][WatchHardwareDeregisterTick =>
            /\ last'.removed = {v \in Values(nodeCache) :
                                    v.NodeName \notin Names(last'.currNodes)}
            /\ Names(last'.removed) \cap DOMAIN nodeCache' = {}
            /\ last.op = "tick" =>
                    \A n \in last.removed :
                        n.NodeName \notin Names(last'.currNodes)
                            => n \notin last'.removed
            /\ (~last'.removeOK /\ last'.updateSuccess) =>
                    forceUpdateCnt' = IF forceUpdateCnt = 0 THEN 10
                                      ELSE forceUpdateCnt - 1
            /\ (~last'.removeOK /\ last'.keySuccess) => ~updateMtnKey'
            /\ inShutdown' = inShutdown]_vars

\* a deregister call has failed: the node is gone from the cache, the
\* countdown runs on and the key flag is clear
C37_Witness ==
    /\ last.op = "tick" /\ last.removed # {} /\ ~last.removeOK
    /\ Names(last.removed) \cap DOMAIN nodeCache = {}
    /\ forceUpdateCnt \in 1..9 /\ ~updateMtnKey

(***************************************************************************)
(* C38: the countdown is in 0..10 whenever a loop iteration starts; until  *)
(* the first reconcile iteration it is 0 and the key flag is true, so that *)
(* the first iteration is a full update that stages the keys of every      *)
(* mountain-like node; an iteration is a full update exactly when it       *)
(* starts at 0, and every other iteration lowers the countdown, so that no *)
(* more than 10 of them lie between two full updates.                      *)
(***************************************************************************)
C38_CountdownRange ==
    /\ [](forceUpdateCnt \in 0..10)
    /\ [](hardwareUpdateTime = Unknown => forceUpdateCnt = 0 /\ updateMtnKey)
    /\ [][WatchHardwareTick =>
            /\ last'.updateAll <=> forceUpdateCnt = 0
            /\ hardwareUpdateTime = Unknown =>
                    /\ last'.updateAll /\ last'.redeployMtnKeys
                    /\ last'.added = last'.currNodes
                    /\ last'.keyList = MountainLike(last'.currNodes)
            /\ ~last'.updateAll =>
                    /\ forceUpdateCnt' < forceUpdateCnt
                    /\ forceUpdateCnt' \in {0, forceUpdateCnt - 1}]_vars

\* the tenth iteration in a row that was not a full update: the countdown
\* has run from 10 to 0 and the next iteration is one
C38_Witness ==
    /\ last.op = "tick" /\ ~last.updateAll /\ last.updateSuccess
    /\ forceUpdateCnt = 0
    /\ hardwareUpdateTime # Unknown

(***************************************************************************)
(* Convergence of the sizing.  updateNodeCounts is called in every         *)
(* iteration (doHardwareUpdate) and asks the cluster and the file system   *)
(* again for whatever is not yet as computed.                              *)
(***************************************************************************)
\* the inventories of the convergence runs
ConvergeInventories ==
    { {NodeInfo("x1000c0s0b0n0")},
      {NodeInfo("x1000c0s0b0n0"), NodeInfo("x3000c0s1b0n0")} }

\* a failed query, or one of the inventories
ConvergeFetches ==
    {f \in FetchResults : ~f.ok \/ f.nodes \in ConvergeInventories}

\* an iteration while the hardware state manager, the cluster and the file
\* system may fail
WatchHardwareConvergeTick ==
    \E fetch \in ConvergeFetches, k8s \in K8sOutcomes, fs \in FileOutcomes :
        /\ WatchHardwareIteration(fetch, TRUE, TRUE, k8s, fs, TRUE)

NextConverge ==
    \/ WatchHardwareConvergeTick

\* watchHardware is a goroutine of its own whose loop body ends in a sleep:
\* while the process runs and inShutdown is clear, an iteration that can be
\* taken is taken
SpecConverge ==
    Init /\ [][NextConverge]_vars /\ WF_vars(WatchHardwareConvergeTick)

\* an iteration that fetches inv and is served by the cluster and the file
\* system
StableTick(inv) ==
    WatchHardwareIteration([ok |-> TRUE, nodes |-> inv],
                           TRUE, TRUE, "ok", "ok", TRUE)

\* numNodePods and the recorded budgets are the ones inv calls for
Converged(inv) ==
    LET M == Cardinality(MountainLike(inv))
        R == Cardinality({n \in inv : n.Class = "River"})
    IN  /\ numNodePods = Max(Ceiling(M, maxMtnNodesPerPod),
                             Ceiling(R, maxRvrNodesPerPod)) + 1
        /\ numMtnNodesPerPod = Ceiling(M, numNodePods) + 1
        /\ numRvrNodesPerPod = Ceiling(R, numNodePods) + 1

(***************************************************************************)
(* C39: if from some iteration on every iteration fetches the same         *)
(* inventory with M+R > 0 and is served by the cluster and the file        *)
(* system, the maxima and inShutdown left alone, then from some point on   *)
(* numNodePods = max(ceil(M/MAX_MTN), ceil(R/MAX_RVR)) + 1 and the         *)
(* recorded budgets are ceil(M/numNodePods) + 1 and ceil(R/numNodePods)+1, *)
(* for good.                                                               *)
(***************************************************************************)
C39_Convergence ==
    \A inv \in ConvergeInventories :
        <>[][StableTick(inv)]_vars => <>[]Converged(inv)

\* an iteration over an inventory the sizing has converged for: the cluster
\* has the replica count, the file the budgets, and nothing is left to do
C39_Witness ==
    /\ last.op = "tick" /\ last.currNodes \in ConvergeInventories
    /\ Converged(last.currNodes)
    /\ last.sized /\ ~last.k8sUpdate /\ last.k8sOK /\ ~last.fileCall
    /\ replicas = numNodePods
    /\ targetNodeFile = TargetFileLines(numMtnNodesPerPod, numRvrNodesPerPod)

====
